---------------------------- MODULE Spec2Model ----------------------------
(***************************************************************************)
(* A model of flow-builder-core: the FlowPanel side panels (drag resize,   *)
(* open/close, remembered widths), and the FlowCanvas engine (node graph,  *)
(* test scope, execution-path / scenario highlights as rendered on the     *)
(* connector lines, node menus, zoom, and the left-panel observer that     *)
(* suspends legend position updates).                                      *)
(*                                                                         *)
(* Widths and pointer positions are CSS pixels.  The zoom level is a       *)
(* fixed-point number with ZoomScale units per 1.0.                        *)
(***************************************************************************)
EXTENDS Integers, Sequences, FiniteSets, TLC

VARIABLES
    \* ---- FlowPanel (one per side) and the window ----
    innerWidth,              \* window.innerWidth
    isOpen,                  \* side -> container has class 'flow-panel-open'
    styleWidth,              \* side -> inline style.width: <<>> or <<px>>
    dataPanelWidth,          \* side -> attribute data-panel-width: <<>> or <<px>>
    drag,                    \* the drag closure that is active: side, startX, startWidth
    \* ---- FlowCanvas: left-panel MutationObserver state ----
    legendUpdateDisabled,    \* this._legendUpdateDisabled
    panelOpening,            \* this._panelOpening
    panelOpeningTimeout,     \* this._panelOpeningTimeout is a pending 4000 ms timer
    observerCallbackPending, \* this._observerCallbackPending (its setTimeout(0) is pending)
    \* ---- FlowCanvas: zoom ----
    zoomLevel,               \* this.zoomLevel, in units of 1/ZoomScale
    isZoomManuallyChanged,   \* this.isZoomManuallyChanged
    zoomInDisabled,          \* #canvas-zoom-in-button.disabled
    wrapperRect,             \* size of .flow-canvas-main: [width, height]
    contentSize,             \* size of #flow-canvas-content at scale 1: [width, height]
    zoomInRun,               \* zoomIn calls made, while nothing else was called (else -1)
    \* ---- FlowCanvas: graph, scope, highlights and what is rendered ----
    nodes,                   \* this.config.nodes, as the sequence of node ids
    selectedNodeId,          \* this.config.selectedNodeId
    buildMode,               \* this.config.buildMode
    enableSelectiveTesting,  \* this.config.enableSelectiveTesting
    testStartPoint,          \* this.testStartPoint
    testEndPoint,            \* this.testEndPoint
    executionPath,           \* this.executionPath, as the set of its indices
    pathHighlights,          \* this.pathHighlights: scenarioId -> [status, connectors]
    dom,                     \* children of .flow-nodes-container, in document order
    menuCache,               \* the menu-... keys of this.cachedQueries
    lastOp,                  \* the public operation that ran last, with its arguments
    fired,                   \* what the operation in lastOp told the host, in order
    nodeExistsCache,         \* the node-exists-... keys of this.cachedQueries
    \* ---- FlowCanvas: the click listener of the node menus ----
    dropdownToggleInProgress,  \* this._dropdownToggleInProgress
    dropdownToggleTimeout,     \* the 100 ms timer that clears it is pending
    modeSwitchFrame,           \* the animation frame requested by setBuildMode is pending
    \* ---- FlowCanvas: what the panel of the selected node edits ----
    titles,                  \* node id -> the title of that node object
    outputs,                 \* this.outputs: node id -> field -> value
    outputsInputDebounce,    \* this.outputsInputDebounce: key -> the timer id stored there
    timers,                  \* the pending timers set by the input listener
    nextTimerId,             \* the id the next setTimeout returns
    panel,                   \* what the right panel shows: the node and its title input
    lastInput,               \* target -> its input events since a timer of it fired
    \* ---- FlowCanvas and FlowPanel: the mount point ----
    container,               \* this.container is an element (FALSE: it was not found)
    thrown                   \* the operation in lastOp raised an error

panelVars == <<innerWidth, isOpen, styleWidth, dataPanelWidth, drag>>
observerVars == <<legendUpdateDisabled, panelOpening, panelOpeningTimeout,
                  observerCallbackPending>>
zoomVars == <<zoomLevel, isZoomManuallyChanged, zoomInDisabled, wrapperRect,
              contentSize, zoomInRun>>
canvasVars == <<nodes, selectedNodeId, buildMode, enableSelectiveTesting, testStartPoint,
                testEndPoint, executionPath, pathHighlights, dom, menuCache, lastOp,
                fired, nodeExistsCache>>
editVars == <<titles, outputs, outputsInputDebounce, timers, nextTimerId, panel, lastInput>>
menuVars == <<dropdownToggleInProgress, dropdownToggleTimeout, modeSwitchFrame>>
mountVars == <<container, thrown>>
vars == <<panelVars, observerVars, zoomVars, canvasVars, menuVars, editVars, mountVars>>
notPanelVars == <<zoomVars, canvasVars, menuVars, editVars, mountVars>>
notZoomVars == <<panelVars, observerVars, canvasVars, menuVars, editVars, mountVars>>
notCanvasVars == <<panelVars, observerVars, zoomVars, menuVars, editVars, mountVars>>
\* What no handler of the canvas itself writes.
outsideCanvasVars == <<panelVars, observerVars, zoomVars, menuVars, mountVars>>
notMenuVars == <<panelVars, observerVars, zoomVars, editVars, mountVars>>

Max(a, b) == IF a >= b THEN a ELSE b
Min(a, b) == IF a <= b THEN a ELSE b

(***************************************************************************)
(*                              FlowPanel                                  *)
(***************************************************************************)
Sides == {"left", "right"}
Other(side) == IF side = "left" THEN "right" ELSE "left"

minWidth == 400
gapBetweenPanels == 100
otherPanelMinWidth == 400
defaultWidth == 400

\* Windows the panels are laid out in, and the pointer positions of mouse events.
ViewportWidths == {1000, 1200}
MaxPointerCell == 12
PointerXs == {100 * k : k \in 0..MaxPointerCell}

NoDrag == [side |-> "none", startX |-> 0, startWidth |-> 0]

\* container.offsetWidth of an open panel: its inline width.
OpenOffsetWidth(side) == IF Len(styleWidth[side]) = 0 THEN 0 ELSE styleWidth[side][1]

\* container.offsetWidth of a closed panel is decided by the stylesheet, which
\* either collapses the container or leaves the inline width in force.
ClosedOffsetWidths(side) == {0} \cup {OpenOffsetWidth(side)}

\* getBoundingClientRect().left: the wrapper lays out the left container, the
\* canvas and the right container in a row over the whole window.
RectLeft(side) == IF side = "left" THEN 0 ELSE innerWidth - OpenOffsetWidth(side)

\* The MutationObserver callback of the canvas, run for every change of the
\* left container's class attribute: it only schedules the deferred part.
ObserverNotified ==
    observerCallbackPending' =
        (IF observerCallbackPending \/ legendUpdateDisabled
            THEN observerCallbackPending
            ELSE TRUE)

\* FlowPanel.open on the panel mounted in the container of `side`.
open(side) ==
    /\ drag.side # side
    /\ isOpen' = [isOpen EXCEPT ![side] = TRUE]
    /\ IF Len(dataPanelWidth[side]) > 0
          THEN /\ styleWidth' = [styleWidth EXCEPT ![side] = dataPanelWidth[side]]
               /\ UNCHANGED dataPanelWidth
          ELSE /\ styleWidth' = [styleWidth EXCEPT ![side] = <<defaultWidth>>]
               /\ dataPanelWidth' = [dataPanelWidth EXCEPT ![side] = <<defaultWidth>>]
    /\ IF side = "left" THEN ObserverNotified ELSE UNCHANGED observerCallbackPending
    /\ UNCHANGED <<innerWidth, drag, legendUpdateDisabled, panelOpening, panelOpeningTimeout>>
    /\ UNCHANGED notPanelVars

\* FlowPanel.close: the drag listeners of the panel are removed with it.
close(side) ==
    /\ isOpen[side]
    /\ isOpen' = [isOpen EXCEPT ![side] = FALSE]
    /\ drag' = IF drag.side = side THEN NoDrag ELSE drag
    /\ IF side = "left" THEN ObserverNotified ELSE UNCHANGED observerCallbackPending
    /\ UNCHANGED <<innerWidth, styleWidth, dataPanelWidth,
                   legendUpdateDisabled, panelOpening, panelOpeningTimeout>>
    /\ UNCHANGED notPanelVars

\* mousedown on the drag handle, which sits on the panel's inner edge.
handleMouseDown(side) ==
    /\ isOpen[side]
    /\ drag.side = "none"
    /\ drag' = [side |-> side,
                startX |-> IF side = "left" THEN RectLeft(side) + OpenOffsetWidth(side)
                                            ELSE RectLeft(side),
                startWidth |-> OpenOffsetWidth(side)]
    /\ ObserverNotified
    /\ UNCHANGED <<innerWidth, isOpen, styleWidth, dataPanelWidth,
                   legendUpdateDisabled, panelOpening, panelOpeningTimeout>>
    /\ UNCHANGED notPanelVars

\* The first clamp of the candidate width to [minWidth, 0.8 * innerWidth].
maxWidth == (innerWidth * 4) \div 5
ClampedWidth(clientX) ==
    LET deltaX == IF drag.side = "left" THEN clientX - drag.startX
                                        ELSE drag.startX - clientX
    IN  Max(minWidth, Min(maxWidth, drag.startWidth + deltaX))

\* How far the candidate width reaches into the gap in front of the other panel.
Overlap(side, newWidth) ==
    IF side = "left"
       THEN (RectLeft(side) + newWidth) - (RectLeft(Other(side)) - gapBetweenPanels)
       ELSE (RectLeft(Other(side)) + OpenOffsetWidth(Other(side)) + gapBetweenPanels)
            - (innerWidth - newWidth)

\* A cap that lets the candidate width through.
CappedWidthCandidate(side, newWidth) == newWidth

\* The width the dragged panel is held to when the other panel cannot shrink.
CappedWidth(side, newWidth) ==
    IF side = "left"
       THEN Min(newWidth,
                ((innerWidth - otherPanelMinWidth) - gapBetweenPanels) - RectLeft(side))
       ELSE Min(newWidth,
                innerWidth - ((RectLeft(Other(side)) + otherPanelMinWidth) + gapBetweenPanels))

\* mousemove on the document while a drag is active.
handleMouseMove(clientX) ==
    /\ drag.side # "none"
    /\ LET side == drag.side
           other == Other(side)
           newWidth == ClampedWidth(clientX)
           overlap == Overlap(side, newWidth)
           otherPanelNewWidth == OpenOffsetWidth(other) - overlap
       IN  IF isOpen[other] /\ overlap > 0
              THEN IF otherPanelNewWidth >= otherPanelMinWidth
                      THEN /\ styleWidth' = [styleWidth EXCEPT
                                                ![other] = <<otherPanelNewWidth>>,
                                                ![side] = <<Max(minWidth, newWidth)>>]
                           /\ dataPanelWidth' = [dataPanelWidth EXCEPT
                                                ![other] = <<otherPanelNewWidth>>]
                      ELSE /\ styleWidth' = [styleWidth EXCEPT
                                                ![side] = <<Max(minWidth, CappedWidth(side, newWidth))>>]
                           /\ UNCHANGED dataPanelWidth
              ELSE /\ styleWidth' = [styleWidth EXCEPT ![side] = <<Max(minWidth, newWidth)>>]
                   /\ UNCHANGED dataPanelWidth
    /\ UNCHANGED <<innerWidth, isOpen, drag, observerVars>>
    /\ UNCHANGED notPanelVars

\* A mouseup that takes the open class, not the resizing class, off the other
\* container.
handleMouseUpClosingOther ==
    /\ drag.side # "none"
    /\ dataPanelWidth' = [dataPanelWidth EXCEPT ![drag.side] = <<OpenOffsetWidth(drag.side)>>]
    /\ isOpen' = [isOpen EXCEPT ![Other(drag.side)] = FALSE]
    /\ drag' = NoDrag
    /\ ObserverNotified
    /\ UNCHANGED <<innerWidth, styleWidth,
                   legendUpdateDisabled, panelOpening, panelOpeningTimeout>>
    /\ UNCHANGED notPanelVars

\* mouseup on the document while a drag is active: both widths are stored.
handleMouseUp ==
    /\ drag.side # "none"
    /\ LET side == drag.side
           other == Other(side)
       IN  \E otherPanelFinalWidth \in
                (IF isOpen[other] THEN {OpenOffsetWidth(other)} ELSE ClosedOffsetWidths(other)) :
              dataPanelWidth' = [dataPanelWidth EXCEPT
                                    ![other] = <<otherPanelFinalWidth>>,
                                    ![side] = <<OpenOffsetWidth(side)>>]
    /\ drag' = NoDrag
    /\ ObserverNotified
    /\ UNCHANGED <<innerWidth, isOpen, styleWidth,
                   legendUpdateDisabled, panelOpening, panelOpeningTimeout>>
    /\ UNCHANGED notPanelVars

(***************************************************************************)
(*            FlowCanvas: the observer of the left panel's class           *)
(***************************************************************************)
\* The setTimeout(0) body of the zoomPositionObserver callback.
zoomPositionObserver ==
    /\ observerCallbackPending
    /\ observerCallbackPending' = FALSE
    /\ IF legendUpdateDisabled
          THEN UNCHANGED <<legendUpdateDisabled, panelOpening, panelOpeningTimeout>>
          ELSE LET isPanelOpening == isOpen["left"]
                   wasOpening == panelOpening
               IN  /\ panelOpening' = isPanelOpening
                   /\ IF isPanelOpening /\ ~wasOpening
                         THEN /\ legendUpdateDisabled' = TRUE
                              /\ panelOpeningTimeout' = TRUE
                         ELSE IF ~isPanelOpening /\ wasOpening
                                 THEN /\ legendUpdateDisabled' = FALSE
                                      /\ panelOpeningTimeout' = FALSE
                                 ELSE UNCHANGED <<legendUpdateDisabled, panelOpeningTimeout>>
    /\ UNCHANGED panelVars
    /\ UNCHANGED notPanelVars

\* The 4000 ms timer set when the panel was seen to open.
panelOpeningTimeoutFires ==
    /\ panelOpeningTimeout
    /\ panelOpeningTimeout' = FALSE
    /\ legendUpdateDisabled' =
          (IF legendUpdateDisabled /\ isOpen["left"] THEN FALSE ELSE legendUpdateDisabled)
    /\ UNCHANGED <<panelOpening, observerCallbackPending>>
    /\ UNCHANGED panelVars
    /\ UNCHANGED notPanelVars

(***************************************************************************)
(*                            FlowCanvas: zoom                             *)
(***************************************************************************)
\* zoomLevel 1 (100%) is ZoomScale units; levels are kept to 1/ZoomScale.
ZoomScale == 10000
minZoom == ZoomScale \div 4
maxZoom == 3 * ZoomScale
\* zoomFactor 1.05, in hundredths.
zoomFactor == 105
\* The padding zoomFit takes off the viewport, 48px on each side.
fitPadding == 96

WrapperRects == {[width |-> 1200, height |-> 800], [width |-> 700, height |-> 500]}
ContentSizes == {[width |-> 400, height |-> 600], [width |-> 400, height |-> 2400],
                 [width |-> 1500, height |-> 600]}
MaxZoomInRun == 24

\* A zoom-in button that is disabled only at the largest level.
updateZoomButtonStateAtMaxZoom(level) == zoomInDisabled' = (level >= maxZoom)
\* FlowCanvas.updateZoomButtonState, for the level just set.
updateZoomButtonState(level) == zoomInDisabled' = (level >= ZoomScale)

\* FlowCanvas.applyZoom: clamp, set, refresh the buttons.
ClampZoomNoCap(level) == Max(minZoom, level)
ClampZoom(level) == Max(minZoom, Min(maxZoom, level))
applyZoom(level) ==
    /\ zoomLevel' = ClampZoom(level)
    /\ updateZoomButtonState(ClampZoom(level))

\* this.zoomLevel * this.zoomFactor and this.zoomLevel / this.zoomFactor
\* (results are rounded to the nearest unit, as floating point rounds)
Rounded(num, den) == (2 * num + den) \div (2 * den)
TimesZoomFactorAdded(level) == level + Rounded((zoomFactor - 100) * ZoomScale, 100)
TimesZoomFactor(level) == Rounded(level * zoomFactor, 100)
OverZoomFactor(level) == Rounded(level * 100, zoomFactor)

zoomIn ==
    /\ isZoomManuallyChanged' = TRUE
    /\ applyZoom(TimesZoomFactor(zoomLevel))
    /\ zoomInRun' = IF zoomInRun >= 0 /\ zoomInRun < MaxZoomInRun THEN zoomInRun + 1 ELSE -1
    /\ UNCHANGED <<wrapperRect, contentSize>>
    /\ UNCHANGED notZoomVars

zoomOut ==
    /\ isZoomManuallyChanged' = TRUE
    /\ applyZoom(OverZoomFactor(zoomLevel))
    /\ zoomInRun' = -1
    /\ UNCHANGED <<wrapperRect, contentSize>>
    /\ UNCHANGED notZoomVars

\* The wheel listener on .flow-canvas-main.
zoomWheelListener(deltaY) ==
    /\ isZoomManuallyChanged' = TRUE
    /\ IF deltaY > 0 THEN applyZoom(OverZoomFactor(zoomLevel))
                     ELSE applyZoom(TimesZoomFactor(zoomLevel))
    /\ zoomInRun' = -1
    /\ UNCHANGED <<wrapperRect, contentSize>>
    /\ UNCHANGED notZoomVars

\* The ratio zoomFit computes: the content's rectangle is measured as
\* displayed, that is scaled by the current level.
FitScale(avail, natural) ==
    Rounded(Rounded(avail * ZoomScale, natural) * ZoomScale, zoomLevel)
\* A fit ratio without the cap at 100%.
fitZoomUncapped ==
    Min(FitScale(wrapperRect.width - fitPadding, contentSize.width),
        FitScale(wrapperRect.height - fitPadding, contentSize.height))
fitZoom ==
    Min(Min(FitScale(wrapperRect.width - fitPadding, contentSize.width),
            FitScale(wrapperRect.height - fitPadding, contentSize.height)),
        ZoomScale)

zoomFit ==
    /\ isZoomManuallyChanged' = FALSE
    /\ IF isZoomManuallyChanged
          THEN applyZoom(ZoomScale)
          ELSE applyZoom(Max(minZoom, fitZoom))
    /\ zoomInRun' = -1
    /\ UNCHANGED <<wrapperRect, contentSize>>
    /\ UNCHANGED notZoomVars

ZoomInit ==
    /\ zoomLevel = ZoomScale
    /\ isZoomManuallyChanged = FALSE
    /\ zoomInDisabled = TRUE
    /\ zoomInRun = 0

ZoomNext ==
    \/ zoomIn
    \/ zoomOut
    \/ \E deltaY \in {-100, 0, 100} : zoomWheelListener(deltaY)
    \/ zoomFit

(***************************************************************************)
(*              FlowCanvas: nodes, connectors and their rendering          *)
(***************************************************************************)
\* null
None == "null"

getDefaultNodes == <<"start", "create-task", "update-case", "send-email", "end">>

\* node.type of the node with a given id (ids are unique and keep their type).
TypeOf(id) ==
    CASE id = "start" -> "start"
      [] id = "create-task" -> "create"
      [] id = "update-case" -> "update"
      [] id = "send-email" -> "action"
      [] id = "end" -> "end"
      [] OTHER -> "action"

\* Array.prototype.findIndex(n => n.id === id): zero-based, -1 when absent.
findIndex(ns, id) ==
    IF \E k \in 1..Len(ns) : ns[k] = id
       THEN (CHOOSE k \in 1..Len(ns) : ns[k] = id /\ \A j \in 1..(k - 1) : ns[j] # id) - 1
       ELSE -1

\* The element at a zero-based index.
At(ns, i) == ns[i + 1]
Has(ns, i) == i >= 0 /\ i < Len(ns)

NoClasses == {}
BuildMenuItems == {"copy-element", "cut-element", "delete-element"}

\* The two items of the test-mode menu of a node.
TestMenuItems(id, start, end) ==
    {IF start = id THEN "remove-start-point" ELSE "set-start-point",
     IF end = id THEN "remove-end-point" ELSE "set-end-point"}

\* Whether "Set an End Point After" is rendered disabled on the node.
endPointDisabled(ns, id, end) ==
    LET currentNodeIndex == findIndex(ns, id)
        endPointIndex == IF end # None THEN findIndex(ns, end) ELSE -1
        hasNext == currentNodeIndex >= 0 /\ currentNodeIndex < Len(ns) - 1
        isRightBeforeEndElement ==
            end # id /\ hasNext /\ TypeOf(At(ns, currentNodeIndex + 1)) = "end"
        isRightBeforeEndPoint ==
            /\ end # id /\ end # None /\ currentNodeIndex >= 0 /\ endPointIndex >= 0
            /\ currentNodeIndex + 1 = endPointIndex
    IN  isRightBeforeEndElement \/ isRightBeforeEndPoint

\* FlowCanvas.renderNode: the node card with its (closed) menu.
renderNode(ns, id, mode, selective, start, end) ==
    [kind |-> "node", id |-> id, index |-> -1, badge |-> "none",
     line |-> NoClasses, above |-> NoClasses, below |-> NoClasses,
     display |-> FALSE,
     items |-> IF mode = "build" THEN BuildMenuItems
               ELSE IF selective THEN TestMenuItems(id, start, end) ELSE {},
     disabled |-> mode # "build" /\ selective /\ endPointDisabled(ns, id, end)]

\* FlowCanvas.renderConnector
renderConnector(ns, index, start, end, exec) ==
    LET isStartPoint == Has(ns, index + 1) /\ start = At(ns, index + 1)
        isEndPoint == Has(ns, index) /\ end = At(ns, index)
        badgeType == IF isStartPoint THEN "start" ELSE IF isEndPoint THEN "end" ELSE "none"
    IN  [kind |-> "connector", id |-> None, index |-> index, badge |-> badgeType,
         line |-> IF badgeType = "none" /\ index \in exec THEN {"executed"} ELSE NoClasses,
         above |-> NoClasses, below |-> NoClasses,
         display |-> FALSE, items |-> {}, disabled |-> FALSE]

\* FlowCanvas.renderNodes: every node, and a connector after each but the last.
renderNodes(ns, mode, selective, start, end, exec) ==
    [p \in 1..(IF Len(ns) = 0 THEN 0 ELSE 2 * Len(ns) - 1) |->
        IF p % 2 = 1
           THEN renderNode(ns, ns[(p + 1) \div 2], mode, selective, start, end)
           ELSE renderConnector(ns, (p \div 2) - 1, start, end, exec)]

IsConnector(el) == el.kind = "connector"

\* container.querySelectorAll('.flow-connector')
Connectors(d) == SelectSeq(d, IsConnector)

\* The position, in that list, of the connector at place p of the document.
ConnectorPosition(d, p) == Cardinality({q \in 1..(p - 1) : d[q].kind = "connector"})

\* The forEach over the connectors that finds the Start / End badge.
BadgeConnectorIndex(d, badgeType) ==
    LET cs == Connectors(d)
        at == {j \in 0..(Len(cs) - 1) : At(cs, j).badge = badgeType}
    IN  IF at = {} THEN -1 ELSE CHOOSE j \in at : \A k \in at : k <= j

\* connectorStatusMap[index], as the set of its distinct statuses.
PathStatuses(hl, index) ==
    {hl[sc].status : sc \in {x \in DOMAIN hl : index \in hl[x].connectors}}

\* A styling that adds the legacy class next to the scenario classes.
applyPathHighlightStylesUnioned(pathStatuses, hasLegacyExecuted) ==
    (IF Cardinality(pathStatuses) <= 1 THEN pathStatuses ELSE {"multi"} \cup pathStatuses)
       \cup (IF hasLegacyExecuted THEN {"executed"} ELSE NoClasses)

\* FlowCanvas.applyPathHighlightStyles, after its clearPathHighlightStyles.
applyPathHighlightStyles(pathStatuses, hasLegacyExecuted) ==
    IF pathStatuses # {}
       THEN IF Cardinality(pathStatuses) = 1 THEN pathStatuses
                                             ELSE {"multi"} \cup pathStatuses
       ELSE IF hasLegacyExecuted THEN {"executed"} ELSE NoClasses

\* FlowCanvas.updateConnectorStyles on the rendered connectors.
updateConnectorStyles(d, exec, hl) ==
    LET hasLegacyPath == exec # {}
        endConnectorIndex == BadgeConnectorIndex(d, "end")
        Styled(el, index) ==
            LET isAfterEnd == endConnectorIndex >= 0 /\ index > endConnectorIndex
                isLegacyExecuted == ~isAfterEnd /\ hasLegacyPath /\ index \in exec
                applied == applyPathHighlightStyles(PathStatuses(hl, index),
                                                    isLegacyExecuted /\ hasLegacyPath)
            IN  IF el.badge = "start"
                   THEN [el EXCEPT !.below = applied, !.above = NoClasses]
                ELSE IF el.badge = "end"
                   THEN [el EXCEPT !.above = applied, !.below = NoClasses]
                ELSE IF isAfterEnd
                   THEN [el EXCEPT !.line = NoClasses]
                   ELSE [el EXCEPT !.line = applied]
    IN  [p \in 1..Len(d) |->
            IF d[p].kind = "connector" THEN Styled(d[p], ConnectorPosition(d, p)) ELSE d[p]]

\* FlowCanvas.renderNodesOnly: re-render the content, then restore the styles.
renderNodesOnly(ns, mode, selective, start, end, exec, hl) ==
    updateConnectorStyles(renderNodes(ns, mode, selective, start, end, exec), exec, hl)

\* The list FlowCanvas.setExecutionPath stores for a given index list.
ExecutionPathFor(d, connectorIndices) ==
    LET n == Len(Connectors(d))
        startConnectorIndex == BadgeConnectorIndex(d, "start")
        endConnectorIndex == BadgeConnectorIndex(d, "end")
        upperBound == IF endConnectorIndex >= 0 THEN endConnectorIndex ELSE n
        belowStart == IF startConnectorIndex >= 0
                         THEN {i \in (startConnectorIndex + 1)..(upperBound - 1) :
                                  i # endConnectorIndex}
                         ELSE {}
        aboveEnd == IF endConnectorIndex >= 0 /\ startConnectorIndex < 0
                       THEN 0..(endConnectorIndex - 1)
                       ELSE {}
        added == connectorIndices \cup belowStart \cup aboveEnd
    IN  IF connectorIndices = {} THEN {}
        ELSE IF endConnectorIndex >= 0
                THEN {i \in added : i # endConnectorIndex /\ i < endConnectorIndex}
                ELSE added

\* A filter that also drops the end-bound connector itself.
filterConnectorsStrictlyInside(d, connectorIndices) ==
    LET startConnectorIndex == BadgeConnectorIndex(d, "start")
        endConnectorIndex == BadgeConnectorIndex(d, "end")
    IN  {i \in connectorIndices :
            /\ (startConnectorIndex >= 0 => i >= startConnectorIndex)
            /\ (endConnectorIndex >= 0 => i < endConnectorIndex)}

\* A filter that drops the connectors already drawn with a status.
filterConnectorsNotYetStyled(d, connectorIndices) ==
    {i \in connectorIndices :
        Has(Connectors(d), i)
           => (At(Connectors(d), i).line \cup At(Connectors(d), i).above
                  \cup At(Connectors(d), i).below) = {}}

\* FlowCanvas.filterConnectorsByTestScope
filterConnectorsByTestScope(d, connectorIndices) ==
    LET startConnectorIndex == BadgeConnectorIndex(d, "start")
        endConnectorIndex == BadgeConnectorIndex(d, "end")
    IN  {i \in connectorIndices :
            /\ (startConnectorIndex >= 0 => i >= startConnectorIndex)
            /\ (endConnectorIndex >= 0 => i <= endConnectorIndex)}

\* The mapping FlowCanvas.setPathHighlights builds from its list, entry by entry.
RECURSIVE PathHighlightsFor(_, _)
PathHighlightsFor(d, scenarioHighlights) ==
    IF scenarioHighlights = <<>> THEN <<>>
    ELSE LET n == Len(scenarioHighlights)
             e == scenarioHighlights[n]
             before == PathHighlightsFor(d, SubSeq(scenarioHighlights, 1, n - 1))
         IN  IF e.scenarioId # "" /\ e.connectors # {}
                THEN [sc \in DOMAIN before \cup {e.scenarioId} |->
                        IF sc = e.scenarioId
                           THEN [status |-> IF e.status = "" THEN "not-run" ELSE e.status,
                                 connectors |-> filterConnectorsByTestScope(d, e.connectors)]
                           ELSE before[sc]]
                ELSE before

(***************************************************************************)
(*                 FlowCanvas: operations on graph and scope               *)
(***************************************************************************)
\* One call of a callback of the host: its name and its arguments.
Notice(name, id, data) == [name |-> name, id |-> id, data |-> data]

\* What a call leaves in lastOp.
Op(name, id, index) == [op |-> name, id |-> id, index |-> index]

\* The content FlowCanvas.render leaves for the primed configuration: that of
\* renderNodes with the connector styles restored; no cached query is dropped.
render ==
    /\ dom' = renderNodesOnly(nodes', buildMode', enableSelectiveTesting', testStartPoint',
                              testEndPoint', executionPath', pathHighlights')
    /\ UNCHANGED nodeExistsCache

\* What FlowCanvas.renderNodesOnly leaves for the primed configuration: the
\* content, and no node-... key in this.cachedQueries.
Rerendered ==
    /\ dom' = renderNodesOnly(nodes', buildMode', enableSelectiveTesting', testStartPoint',
                              testEndPoint', executionPath', pathHighlights')
    /\ nodeExistsCache' = <<>>

\* Array.prototype.splice(start, 0, node): a start beyond the end is the end,
\* a negative start counts from the end.
splice(ns, start, node) ==
    LET actualStart == IF start < 0 THEN Max(Len(ns) + start, 0) ELSE Min(start, Len(ns))
    IN  SubSeq(ns, 1, actualStart) \o <<node>> \o SubSeq(ns, actualStart + 1, Len(ns))

\* Array.prototype.slice(begin, end)
slice(ns, begin, end) ==
    LET from == IF begin < 0 THEN Max(Len(ns) + begin, 0) ELSE Min(begin, Len(ns))
        to == IF end < 0 THEN Max(Len(ns) + end, 0) ELSE Min(end, Len(ns))
    IN  SubSeq(ns, from + 1, to)

\* The place addNode hands to splice, before the one at that index.
spliceStartBefore(index) == index
\* The place addNode hands to splice.
spliceStart(index) == index + 1

\* FlowCanvas.addNode
addNode(node, index) ==
    /\ nodes' = splice(nodes, spliceStart(index), node)
    /\ UNCHANGED <<selectedNodeId, buildMode, enableSelectiveTesting, testStartPoint,
                   testEndPoint, executionPath, pathHighlights>>
    /\ Rerendered
    /\ lastOp' = Op("addNode", node, index)
    /\ fired' = IF buildMode = "build" THEN <<Notice("onChange", None, <<>>)>> ELSE <<>>
    /\ UNCHANGED <<menuCache, notCanvasVars>>

\* FlowCanvas.removeNode
removeNode(nodeId) ==
    /\ nodes' = SelectSeq(nodes, LAMBDA n : n # nodeId)
    /\ selectedNodeId' = IF selectedNodeId = nodeId THEN None ELSE selectedNodeId
    /\ UNCHANGED <<buildMode, enableSelectiveTesting, testStartPoint, testEndPoint,
                   executionPath, pathHighlights>>
    /\ Rerendered
    /\ lastOp' = Op("removeNode", nodeId, -1)
    /\ fired' = IF buildMode = "build" THEN <<Notice("onChange", None, <<>>)>> ELSE <<>>
    /\ UNCHANGED <<menuCache, notCanvasVars>>

\* setTestStartPoint without the clearing of handleStartEndPointChange.
setTestStartPointKeepingPath(nodeId) ==
    /\ testStartPoint' = nodeId
    /\ menuCache' = {}
    /\ UNCHANGED <<nodes, selectedNodeId, buildMode, enableSelectiveTesting, testEndPoint,
                   executionPath, pathHighlights>>
    /\ Rerendered
    /\ lastOp' = Op("setTestStartPoint", nodeId, -1)
    /\ fired' = <<>>
    /\ UNCHANGED notCanvasVars

\* FlowCanvas.setTestStartPoint, with its handleStartEndPointChange.
setTestStartPoint(nodeId) ==
    /\ executionPath' = {}
    /\ pathHighlights' = <<>>
    /\ testStartPoint' = nodeId
    /\ menuCache' = {}
    /\ UNCHANGED <<nodes, selectedNodeId, buildMode, enableSelectiveTesting, testEndPoint>>
    /\ Rerendered
    /\ lastOp' = Op("setTestStartPoint", nodeId, -1)
    /\ fired' = <<>>
    /\ UNCHANGED notCanvasVars

\* FlowCanvas.setTestEndPoint, with its handleStartEndPointChange.
setTestEndPoint(nodeId) ==
    /\ executionPath' = {}
    /\ pathHighlights' = <<>>
    /\ testEndPoint' = nodeId
    /\ menuCache' = {}
    /\ UNCHANGED <<nodes, selectedNodeId, buildMode, enableSelectiveTesting, testStartPoint>>
    /\ Rerendered
    /\ lastOp' = Op("setTestEndPoint", nodeId, -1)
    /\ fired' = <<>>
    /\ UNCHANGED notCanvasVars

\* FlowCanvas.removeTestStartPoint
removeTestStartPoint ==
    /\ executionPath' = {}
    /\ pathHighlights' = <<>>
    /\ testStartPoint' = None
    /\ UNCHANGED <<nodes, selectedNodeId, buildMode, enableSelectiveTesting, testEndPoint>>
    /\ Rerendered
    /\ lastOp' = Op("removeTestStartPoint", None, -1)
    /\ fired' = <<>>
    /\ UNCHANGED <<menuCache, notCanvasVars>>

\* FlowCanvas.removeTestEndPoint
removeTestEndPoint(nodeId) ==
    /\ executionPath' = {}
    /\ pathHighlights' = <<>>
    /\ testEndPoint' = None
    /\ UNCHANGED <<nodes, selectedNodeId, buildMode, enableSelectiveTesting, testStartPoint>>
    /\ Rerendered
    /\ lastOp' = Op("removeTestEndPoint", nodeId, -1)
    /\ fired' = <<>>
    /\ UNCHANGED <<menuCache, notCanvasVars>>

\* FlowCanvas.clearTestStartPoint
clearTestStartPoint ==
    /\ testStartPoint' = None
    /\ UNCHANGED <<nodes, selectedNodeId, buildMode, enableSelectiveTesting, testEndPoint,
                   executionPath, pathHighlights, menuCache>>
    /\ Rerendered
    /\ lastOp' = Op("clearTestStartPoint", None, -1)
    /\ fired' = <<>>
    /\ UNCHANGED notCanvasVars

\* FlowCanvas.clearTestEndPoint
clearTestEndPoint ==
    /\ testEndPoint' = None
    /\ UNCHANGED <<nodes, selectedNodeId, buildMode, enableSelectiveTesting, testStartPoint,
                   executionPath, pathHighlights, menuCache>>
    /\ Rerendered
    /\ lastOp' = Op("clearTestEndPoint", None, -1)
    /\ fired' = <<>>
    /\ UNCHANGED notCanvasVars

\* FlowCanvas.clearAllTestEndPoints: its render() fills the existing structure.
clearAllTestEndPoints ==
    /\ testEndPoint' = None
    /\ UNCHANGED <<nodes, selectedNodeId, buildMode, enableSelectiveTesting, testStartPoint,
                   executionPath, pathHighlights, menuCache>>
    /\ Rerendered
    /\ lastOp' = Op("clearAllTestEndPoints", None, -1)
    /\ fired' = <<>>
    /\ UNCHANGED notCanvasVars

\* FlowCanvas.updateConfig({ buildMode }): the configuration is merged and
\* render() follows.
updateConfigBuildMode(mode) ==
    /\ buildMode' = mode
    /\ UNCHANGED <<nodes, selectedNodeId, enableSelectiveTesting, testStartPoint, testEndPoint,
                   executionPath, pathHighlights, menuCache>>
    /\ render
    /\ lastOp' = Op("updateConfigBuildMode", None, -1)
    /\ fired' = <<>>
    /\ UNCHANGED notCanvasVars

\* FlowCanvas.setExecutionPath
setExecutionPath(connectorIndices) ==
    /\ executionPath' = ExecutionPathFor(dom, connectorIndices)
    /\ dom' = updateConnectorStyles(dom, executionPath', pathHighlights)
    /\ UNCHANGED <<nodes, selectedNodeId, buildMode, enableSelectiveTesting, testStartPoint,
                   testEndPoint, pathHighlights>>
    /\ lastOp' = Op("setExecutionPath", None, -1)
    /\ fired' = <<>>
    /\ UNCHANGED <<menuCache, notCanvasVars>>
    /\ UNCHANGED nodeExistsCache

\* FlowCanvas.setPathHighlights
setPathHighlights(scenarioHighlights) ==
    /\ pathHighlights' = PathHighlightsFor(dom, scenarioHighlights)
    /\ dom' = updateConnectorStyles(dom, executionPath, pathHighlights')
    /\ UNCHANGED <<nodes, selectedNodeId, buildMode, enableSelectiveTesting, testStartPoint,
                   testEndPoint, executionPath>>
    /\ lastOp' = Op("setPathHighlights", None, -1)
    /\ fired' = <<>>
    /\ UNCHANGED <<menuCache, notCanvasVars>>
    /\ UNCHANGED nodeExistsCache

\* The index one before the end that getTestScope hands to slice.
sliceEndAt(endIndex) == endIndex
\* The end that getTestScope hands to slice.
sliceEnd(endIndex) == endIndex + 1

\* FlowCanvas.getTestScope
getTestScope ==
    IF testStartPoint = None /\ testEndPoint = None
       THEN nodes
       ELSE LET startIndex == IF testStartPoint # None THEN findIndex(nodes, testStartPoint)
                                                       ELSE 0
                endIndex == IF testEndPoint # None THEN findIndex(nodes, testEndPoint)
                                                   ELSE Len(nodes) - 1
            IN  slice(nodes, startIndex, sliceEnd(endIndex))

(***************************************************************************)
(*                 FlowCanvas: the click listener and modes                *)
(***************************************************************************)
\* A node card is rendered for the id.
Rendered(d, id) == \E p \in 1..Len(d) : d[p].kind = "node" /\ d[p].id = id

\* The rendered card of a node, with its menu.
Card(d, id) == d[CHOOSE p \in 1..Len(d) : d[p].kind = "node" /\ d[p].id = id]

\* The menu of the node is shown (style.display is 'block').
MenuOpen(d, id) == Rendered(d, id) /\ Card(d, id).display

\* dd.style.display = 'none' on every dropdown.
AllDropdownsClosed(d) == [p \in 1..Len(d) |-> [d[p] EXCEPT !.display = FALSE]]

\* A toggle that leaves the other dropdowns as they are.
AfterTriggerClickKeepingOthers(d, nodeId) ==
    LET card == Card(d, nodeId)
    IN  [p \in 1..Len(d) |->
            IF d[p].kind = "node" /\ d[p].id = nodeId /\ card.items # {}
               THEN [card EXCEPT !.display = ~card.display]
               ELSE d[p]]

\* The cards after a click on the trigger of nodeId that found the guard clear:
\* the list refilled where the listener refills it, and the dropdown toggled
\* with every other one closed when the list has items.
AfterTriggerClick(d, nodeId) ==
    LET card == Card(d, nodeId)
        hasItems == card.items # {}
        cachedMenuState == <<nodeId, buildMode, testEndPoint>> \in menuCache
        shouldRefreshMenu ==
            ~hasItems \/ (buildMode = "test" /\ enableSelectiveTesting /\ ~cachedMenuState)
        refilled ==
            IF shouldRefreshMenu /\ buildMode = "build"
               THEN [card EXCEPT !.items = BuildMenuItems, !.disabled = FALSE]
            ELSE IF shouldRefreshMenu /\ buildMode = "test" /\ enableSelectiveTesting
               THEN [card EXCEPT !.items = TestMenuItems(nodeId, testStartPoint, testEndPoint),
                                 !.disabled = endPointDisabled(nodes, nodeId, testEndPoint)]
               ELSE card
        hasMenuItems == refilled.items # {}
    IN  [p \in 1..Len(d) |->
            IF d[p].kind = "node" /\ d[p].id = nodeId
               THEN IF hasMenuItems THEN [refilled EXCEPT !.display = ~card.display]
                                    ELSE refilled
               ELSE IF hasMenuItems THEN [d[p] EXCEPT !.display = FALSE] ELSE d[p]]

\* The click listener, for a click on the menu trigger of a node.
menuTriggerClick(nodeId) ==
    /\ Rendered(dom, nodeId)
    /\ lastOp' = Op("menuTriggerClick", nodeId, -1)
    /\ fired' = <<>>
    /\ IF dropdownToggleInProgress
          THEN UNCHANGED <<dom, menuCache, dropdownToggleInProgress, dropdownToggleTimeout>>
          ELSE /\ dom' = AfterTriggerClick(dom, nodeId)
               /\ menuCache' =
                     IF /\ buildMode = "test" /\ enableSelectiveTesting
                        /\ (Card(dom, nodeId).items = {}
                               \/ <<nodeId, buildMode, testEndPoint>> \notin menuCache)
                        THEN menuCache \cup {<<nodeId, buildMode, testEndPoint>>}
                        ELSE menuCache
               /\ dropdownToggleInProgress' = TRUE
               /\ dropdownToggleTimeout' = (Card(dom', nodeId).items # {})
    /\ UNCHANGED <<nodes, selectedNodeId, buildMode, enableSelectiveTesting, testStartPoint,
                   testEndPoint, executionPath, pathHighlights, modeSwitchFrame>>
    /\ UNCHANGED notMenuVars
    /\ UNCHANGED nodeExistsCache

\* The 100 ms timer set by a toggle.
dropdownToggleTimeoutFires ==
    /\ dropdownToggleTimeout
    /\ dropdownToggleTimeout' = FALSE
    /\ dropdownToggleInProgress' = FALSE
    /\ UNCHANGED <<canvasVars, modeSwitchFrame, notMenuVars>>

\* The listener's own checks before 'set-end-point' reaches setTestEndPoint.
setEndPointRefused(nodeId) ==
    LET currentNodeIndex == findIndex(nodes, nodeId)
        endPointIndex == IF testEndPoint # None THEN findIndex(nodes, testEndPoint) ELSE -1
    IN  \/ Card(dom, nodeId).disabled
        \/ /\ currentNodeIndex >= 0 /\ currentNodeIndex < Len(nodes) - 1
           /\ \/ TypeOf(At(nodes, currentNodeIndex + 1)) = "end"
              \/ (endPointIndex >= 0 /\ currentNodeIndex + 1 = endPointIndex)

\* this.config.onChange() is called: by addNode and removeNode, in build mode.
FiresOnChange(mode, op) == mode = "build" /\ op.op \in {"addNode", "removeNode"}

\* An item click that deletes without waiting for the answer to confirm().
menuItemClickWithoutConfirm(nodeId, action, confirmed) ==
    /\ MenuOpen(dom, nodeId)
    /\ action \in Card(dom, nodeId).items
    /\ CASE action = "set-start-point" -> setTestStartPoint(nodeId)
         [] action = "remove-start-point" -> removeTestStartPoint
         [] action = "set-end-point" /\ ~setEndPointRefused(nodeId) -> setTestEndPoint(nodeId)
         [] action = "remove-end-point" -> removeTestEndPoint(nodeId)
         [] action = "delete-element" -> removeNode(nodeId)
         [] OTHER ->
               /\ dom' = [p \in 1..Len(dom) |->
                            IF dom[p].kind = "node" /\ dom[p].id = nodeId
                               THEN [dom[p] EXCEPT !.display = FALSE] ELSE dom[p]]
               /\ lastOp' = Op(IF action = "delete-element" THEN "deleteDeclined"
                                                            ELSE "menuItemClick", nodeId, -1)
               /\ fired' = CASE action = "copy-element" -> <<Notice("onNodeCopy", nodeId, <<>>)>>
                             [] action = "cut-element" -> <<Notice("onNodeCut", nodeId, <<>>)>>
                             [] OTHER -> <<>>
               /\ UNCHANGED <<nodes, selectedNodeId, buildMode, enableSelectiveTesting,
                              testStartPoint, testEndPoint, executionPath, pathHighlights,
                              menuCache>>
               /\ UNCHANGED notCanvasVars
               /\ UNCHANGED nodeExistsCache

\* The click listener, for a click on an item of the open menu of a node;
\* confirmed is the answer to the confirm() of 'delete-element'.
menuItemClick(nodeId, action, confirmed) ==
    /\ MenuOpen(dom, nodeId)
    /\ action \in Card(dom, nodeId).items
    /\ CASE action = "set-start-point" -> setTestStartPoint(nodeId)
         [] action = "remove-start-point" -> removeTestStartPoint
         [] action = "set-end-point" /\ ~setEndPointRefused(nodeId) -> setTestEndPoint(nodeId)
         [] action = "remove-end-point" -> removeTestEndPoint(nodeId)
         [] action = "delete-element" /\ confirmed -> removeNode(nodeId)
         [] OTHER ->
               /\ dom' = [p \in 1..Len(dom) |->
                            IF dom[p].kind = "node" /\ dom[p].id = nodeId
                               THEN [dom[p] EXCEPT !.display = FALSE] ELSE dom[p]]
               /\ lastOp' = Op(IF action = "delete-element" THEN "deleteDeclined"
                                                            ELSE "menuItemClick", nodeId, -1)
               /\ fired' = CASE action = "copy-element" -> <<Notice("onNodeCopy", nodeId, <<>>)>>
                             [] action = "cut-element" -> <<Notice("onNodeCut", nodeId, <<>>)>>
                             [] OTHER -> <<>>
               /\ UNCHANGED <<nodes, selectedNodeId, buildMode, enableSelectiveTesting,
                              testStartPoint, testEndPoint, executionPath, pathHighlights,
                              menuCache>>
               /\ UNCHANGED notCanvasVars
               /\ UNCHANGED nodeExistsCache

\* The click listener, for a click on a node card outside its menu.
nodeClick(nodeId) ==
    /\ Rendered(dom, nodeId)
    /\ selectedNodeId' = nodeId
    /\ lastOp' = Op("nodeClick", nodeId, -1)
    /\ fired' = <<Notice("onNodeSelected", nodeId, <<>>), Notice("onNodeClick", nodeId, <<>>)>>
    /\ UNCHANGED <<nodes, buildMode, enableSelectiveTesting, testStartPoint, testEndPoint,
                   executionPath, pathHighlights, dom, menuCache>>
    /\ UNCHANGED notCanvasVars
    /\ UNCHANGED nodeExistsCache

\* The click listener, for a click on the add button of a connector: the
\* host's onConnectorClick is told the index, the listener returns.
connectorButtonClick(index) ==
    /\ Has(Connectors(dom), index)
    /\ lastOp' = Op("connectorButtonClick", None, index)
    /\ fired' = <<Notice("onConnectorClick", None, <<index>>)>>
    /\ UNCHANGED <<nodes, selectedNodeId, buildMode, enableSelectiveTesting, testStartPoint,
                   testEndPoint, executionPath, pathHighlights, dom, menuCache>>
    /\ UNCHANGED notCanvasVars
    /\ UNCHANGED nodeExistsCache

\* The click listener, for a click on the empty background of the canvas.
outsideClick ==
    /\ dom' = AllDropdownsClosed(dom)
    /\ selectedNodeId' = None
    /\ lastOp' = Op("outsideClick", None, -1)
    /\ fired' = <<>>
    /\ UNCHANGED <<nodes, buildMode, enableSelectiveTesting, testStartPoint, testEndPoint,
                   executionPath, pathHighlights, menuCache>>
    /\ UNCHANGED notCanvasVars
    /\ UNCHANGED nodeExistsCache

\* FlowCanvas.setBuildMode, up to the animation frame it requests.
setBuildMode(mode) ==
    /\ buildMode' = mode
    /\ executionPath' = IF mode = "build" THEN {} ELSE executionPath
    /\ pathHighlights' = IF mode = "build" THEN <<>> ELSE pathHighlights
    /\ UNCHANGED <<nodes, selectedNodeId, enableSelectiveTesting, testStartPoint, testEndPoint,
                   menuCache>>
    /\ render
    /\ modeSwitchFrame' = TRUE
    /\ lastOp' = Op("setBuildMode", None, -1)
    /\ fired' = IF selectedNodeId # None
                   THEN <<Notice("onNodeSelected", selectedNodeId, <<>>)>> ELSE <<>>
    /\ UNCHANGED <<dropdownToggleInProgress, dropdownToggleTimeout, notMenuVars>>

\* The animation frame requested by setBuildMode.
modeSwitchFrameFires ==
    /\ modeSwitchFrame
    /\ modeSwitchFrame' = FALSE
    /\ dom' = updateConnectorStyles(dom, executionPath, pathHighlights)
    /\ UNCHANGED <<nodes, selectedNodeId, buildMode, enableSelectiveTesting, testStartPoint,
                   testEndPoint, executionPath, pathHighlights, menuCache, lastOp,
                   fired>>
    /\ UNCHANGED <<dropdownToggleInProgress, dropdownToggleTimeout, notMenuVars>>
    /\ UNCHANGED nodeExistsCache

\* FlowCanvas.updateConfig({ enableSelectiveTesting }): no render follows.
updateConfig(selective) ==
    /\ enableSelectiveTesting' = selective
    /\ lastOp' = Op("updateConfig", None, -1)
    /\ fired' = <<>>
    /\ UNCHANGED <<nodes, selectedNodeId, buildMode, testStartPoint, testEndPoint,
                   executionPath, pathHighlights, dom, menuCache>>
    /\ UNCHANGED notCanvasVars
    /\ UNCHANGED nodeExistsCache

(***************************************************************************)
(*          FlowCanvas: selection, properties and outputs of a node        *)
(***************************************************************************)
\* node.title of the nodes a host hands over.
TitleOf(id) ==
    CASE id = "start" -> "Record-Triggered Flow"
      [] id = "create-task" -> "Create Task"
      [] id = "update-case" -> "Update Case to Escalated"
      [] id = "send-email" -> "Send Email to User"
      [] id = "end" -> "End"
      [] OTHER -> "Element"

\* node.title of the node object with the id.
Title(id) == IF id \in DOMAIN titles THEN titles[id] ELSE TitleOf(id)

\* A function with one key set, and with one key deleted.
Put(f, key, value) == [k \in DOMAIN f \cup {key} |-> IF k = key THEN value ELSE f[k]]
Delete(f, key) == [k \in DOMAIN f \ {key} |-> f[k]]

\* The right panel shows nothing.
NoPanel == [nodeId |-> None, readonly |-> FALSE]

\* FlowCanvas.updateNodeDisplay: the card of the node is replaced by a new one.
updateNodeDisplay(d, ns, nodeId, mode, selective, start, end) ==
    [p \in 1..Len(d) |->
        IF d[p].kind = "node" /\ d[p].id = nodeId /\ findIndex(ns, nodeId) >= 0
           THEN renderNode(ns, nodeId, mode, selective, start, end)
           ELSE d[p]]

\* FlowCanvas.selectNode
selectNode(nodeId) ==
    /\ selectedNodeId' = nodeId
    /\ lastOp' = Op("selectNode", nodeId, -1)
    /\ fired' = <<Notice("onNodeSelected", nodeId, <<>>)>>
    /\ UNCHANGED <<nodes, buildMode, enableSelectiveTesting, testStartPoint, testEndPoint,
                   executionPath, pathHighlights, dom, menuCache, nodeExistsCache>>
    /\ UNCHANGED notCanvasVars

\* FlowCanvas.deselectNode
deselectNode ==
    /\ selectedNodeId' = None
    /\ lastOp' = Op("deselectNode", None, -1)
    /\ fired' = <<>>
    /\ UNCHANGED <<nodes, buildMode, enableSelectiveTesting, testStartPoint, testEndPoint,
                   executionPath, pathHighlights, dom, menuCache, nodeExistsCache>>
    /\ UNCHANGED notCanvasVars

\* FlowCanvas.refreshPanel: the right panel is filled for the selected node;
\* the title input is rendered readonly in test mode.
refreshPanel ==
    /\ selectedNodeId # None
    /\ panel' = IF findIndex(nodes, selectedNodeId) >= 0
                   THEN [nodeId |-> selectedNodeId, readonly |-> buildMode = "test"]
                   ELSE NoPanel
    /\ UNCHANGED <<titles, outputs, outputsInputDebounce, timers, nextTimerId, lastInput>>
    /\ UNCHANGED <<canvasVars, outsideCanvasVars>>

\* FlowCanvas.updateNodeProperty(nodeId, 'title', value)
updateNodeProperty(nodeId, value) ==
    /\ IF findIndex(nodes, nodeId) >= 0
          THEN /\ titles' = Put(titles, nodeId, value)
               /\ dom' = updateNodeDisplay(dom, nodes, nodeId, buildMode,
                                           enableSelectiveTesting, testStartPoint,
                                           testEndPoint)
               /\ fired' = IF buildMode = "build"
                              THEN <<Notice("onChange", None, <<>>)>> ELSE <<>>
          ELSE /\ UNCHANGED <<titles, dom>>
               /\ fired' = <<>>
    /\ lastOp' = Op("updateNodeProperty", nodeId, -1)
    /\ UNCHANGED <<nodes, selectedNodeId, buildMode, enableSelectiveTesting, testStartPoint,
                   testEndPoint, executionPath, pathHighlights, menuCache, nodeExistsCache>>
    /\ UNCHANGED <<outputs, outputsInputDebounce, timers, nextTimerId, panel, lastInput>>
    /\ UNCHANGED outsideCanvasVars

\* The 'change' listener, for a change of the title input of the panel: an
\* input rendered readonly takes no edit.
propertyChange(value) ==
    /\ panel # NoPanel
    /\ ~panel.readonly
    /\ IF selectedNodeId # None
          THEN updateNodeProperty(selectedNodeId, value)
          ELSE /\ lastOp' = Op("propertyChange", None, -1)
               /\ fired' = <<>>
               /\ UNCHANGED <<nodes, selectedNodeId, buildMode, enableSelectiveTesting,
                              testStartPoint, testEndPoint, executionPath, pathHighlights,
                              dom, menuCache, nodeExistsCache>>
               /\ UNCHANGED notCanvasVars

\* FlowCanvas.updateConfig({ nodes }): no render follows.
updateConfigNodes(ns) ==
    /\ nodes' = ns
    /\ lastOp' = Op("updateConfigNodes", None, -1)
    /\ fired' = <<>>
    /\ UNCHANGED <<selectedNodeId, buildMode, enableSelectiveTesting, testStartPoint,
                   testEndPoint, executionPath, pathHighlights, dom, menuCache,
                   nodeExistsCache>>
    /\ UNCHANGED notCanvasVars

\* FlowCanvas.updateNodeOutputs
updateNodeOutputs(nodeId, outputsData) ==
    /\ nodeId # ""
    /\ outputs' = Put(outputs, nodeId, outputsData)
    /\ lastOp' = Op("updateNodeOutputs", nodeId, -1)
    /\ fired' = <<Notice("onOutputsChange", nodeId, <<outputsData>>)>>
    /\ UNCHANGED <<nodes, selectedNodeId, buildMode, enableSelectiveTesting, testStartPoint,
                   testEndPoint, executionPath, pathHighlights, dom, menuCache,
                   nodeExistsCache>>
    /\ UNCHANGED <<titles, outputsInputDebounce, timers, nextTimerId, panel, lastInput>>
    /\ UNCHANGED outsideCanvasVars

\* The most timers one run sets.
MaxTimerId == 2

\* The key of the code textarea of a node, and of one of its fields.
TextareaKey(nodeId) == nodeId
FieldKey(nodeId, fieldName) == nodeId \o "-" \o fieldName

\* clearTimeout of the timer stored under a key, if any, then setTimeout.
DebouncedKeepingTimer(key, timer) ==
    /\ nextTimerId <= MaxTimerId
    /\ timers' = timers \cup {[timer EXCEPT !.id = nextTimerId]}
    /\ outputsInputDebounce' = Put(outputsInputDebounce, key, nextTimerId)
    /\ nextTimerId' = nextTimerId + 1
Debounced(key, timer) ==
    /\ nextTimerId <= MaxTimerId
    /\ timers' = {t \in timers : ~(key \in DOMAIN outputsInputDebounce
                                     /\ t.id = outputsInputDebounce[key])}
                    \cup {[timer EXCEPT !.id = nextTimerId]}
    /\ outputsInputDebounce' = Put(outputsInputDebounce, key, nextTimerId)
    /\ nextTimerId' = nextTimerId + 1

\* What a timer of the input listener holds: the closure of its callback.
Timer(nodeId, fieldName, value) ==
    [id |-> 0, nodeId |-> nodeId, fieldName |-> fieldName, value |-> value]

\* The input events on a target since a timer of it fired: how many, and the
\* value of the last.
InputAfter(target, value) ==
    [value |-> value,
     events |-> IF target \in DOMAIN lastInput THEN lastInput[target].events + 1 ELSE 1]

\* The 'input' listener, for the code textarea of the node the panel shows.
outputsTextareaInput(nodeId, value) ==
    /\ panel.nodeId = nodeId
    /\ Debounced(TextareaKey(nodeId), Timer(nodeId, "value", value))
    /\ lastInput' = Put(lastInput, <<nodeId, "value">>, InputAfter(<<nodeId, "value">>, value))
    /\ UNCHANGED <<titles, outputs, panel>>
    /\ UNCHANGED <<canvasVars, outsideCanvasVars>>

\* The 'input' listener, for an input field of the node the panel shows.
outputsFieldInput(nodeId, fieldName, value) ==
    /\ panel.nodeId = nodeId
    /\ Debounced(FieldKey(nodeId, fieldName), Timer(nodeId, fieldName, value))
    /\ lastInput' = Put(lastInput, <<nodeId, fieldName>>,
                         InputAfter(<<nodeId, fieldName>>, value))
    /\ UNCHANGED <<titles, outputs, panel>>
    /\ UNCHANGED <<canvasVars, outsideCanvasVars>>

\* The callback of a timer of the input listener: the outputs of the node
\* take the value, if a card of the node is (or was cached as) in the document.
debounceFires(timer) ==
    LET nodeId == timer.nodeId
        nodeExists == IF nodeId \in DOMAIN nodeExistsCache
                         THEN nodeExistsCache[nodeId] ELSE Rendered(dom, nodeId)
        currentOutputs == IF nodeId \in DOMAIN outputs THEN outputs[nodeId] ELSE <<>>
        outputsData == Put(currentOutputs, timer.fieldName, timer.value)
    IN  /\ timer \in timers
        /\ timers' = timers \ {timer}
        /\ nodeExistsCache' = Put(nodeExistsCache, nodeId, nodeExists)
        /\ outputs' = IF nodeExists THEN Put(outputs, nodeId, outputsData) ELSE outputs
        /\ fired' = IF nodeExists
                       THEN <<Notice("onOutputsChange", nodeId, <<outputsData>>)>> ELSE <<>>
        /\ lastOp' = Op("debounceFires", nodeId,
                        IF <<nodeId, timer.fieldName>> \in DOMAIN lastInput
                           THEN lastInput[<<nodeId, timer.fieldName>>].events ELSE 0)
        /\ lastInput' = Delete(lastInput, <<nodeId, timer.fieldName>>)
        /\ UNCHANGED <<nodes, selectedNodeId, buildMode, enableSelectiveTesting,
                       testStartPoint, testEndPoint, executionPath, pathHighlights, dom,
                       menuCache>>
        /\ UNCHANGED <<titles, outputsInputDebounce, nextTimerId, panel>>
        /\ UNCHANGED outsideCanvasVars

\* The properties, outputs and timers after construction.
EditInit(ns) ==
    /\ titles = <<>>
    /\ outputs = <<>>
    /\ outputsInputDebounce = <<>>
    /\ timers = {}
    /\ nextTimerId = 1
    /\ panel = NoPanel
    /\ lastInput = <<>>
    /\ container = TRUE
    /\ thrown = FALSE

\* The canvas after construction from options.
CanvasInit(ns, mode, selective) ==
    /\ nodes = ns
    /\ selectedNodeId = None
    /\ buildMode = mode
    /\ enableSelectiveTesting = selective
    /\ testStartPoint = None
    /\ testEndPoint = None
    /\ executionPath = {}
    /\ pathHighlights = <<>>
    /\ dom = renderNodes(ns, mode, selective, None, None, {})
    /\ menuCache = {}
    /\ dropdownToggleInProgress = FALSE
    /\ dropdownToggleTimeout = FALSE
    /\ modeSwitchFrame = FALSE
    /\ lastOp = Op("constructor", None, -1)
    /\ fired = <<>>
    /\ nodeExistsCache = <<>>
    /\ EditInit(ns)

(***************************************************************************)
(*                     Specification of the two panels                     *)
(***************************************************************************)
PanelVarsInit ==
    /\ isOpen = [s \in Sides |-> FALSE]
    /\ styleWidth = [s \in Sides |-> <<>>]
    /\ dataPanelWidth = [s \in Sides |-> <<>>]
    /\ drag = NoDrag
    /\ legendUpdateDisabled = FALSE
    /\ panelOpening = FALSE
    /\ panelOpeningTimeout = FALSE
    /\ observerCallbackPending = FALSE

PanelInit ==
    /\ innerWidth \in ViewportWidths
    /\ PanelVarsInit
    /\ ZoomInit
    /\ wrapperRect = [width |-> 1200, height |-> 800]
    /\ contentSize = [width |-> 400, height |-> 600]
    /\ CanvasInit(getDefaultNodes, "build", FALSE)

PanelNext ==
    \/ \E side \in Sides : open(side)
    \/ \E side \in Sides : close(side)
    \/ \E side \in Sides : handleMouseDown(side)
    \/ \E clientX \in PointerXs : handleMouseMove(clientX)
    \/ handleMouseUp
    \/ zoomPositionObserver
    \/ panelOpeningTimeoutFires

PanelSpec == PanelInit /\ [][PanelNext]_vars

\* The panels in a window too narrow for two panels and the gap, or wide enough.
NarrowAndWideViewportWidths == {800, 1200}
ViewportInit ==
    /\ innerWidth \in NarrowAndWideViewportWidths
    /\ PanelVarsInit
    /\ ZoomInit
    /\ wrapperRect = [width |-> 1200, height |-> 800]
    /\ contentSize = [width |-> 400, height |-> 600]
    /\ CanvasInit(getDefaultNodes, "build", FALSE)

ViewportSpec == ViewportInit /\ [][PanelNext]_vars

\* The zoom controls alone, in a window and on a diagram of some size.
ZoomSpecInit ==
    /\ innerWidth = 1200
    /\ PanelVarsInit
    /\ ZoomInit
    /\ wrapperRect \in WrapperRects
    /\ contentSize \in ContentSizes
    /\ CanvasInit(getDefaultNodes, "build", FALSE)

ZoomSpec == ZoomSpecInit /\ [][ZoomNext]_vars

\* Timers that are pending do fire.
PanelFairSpec ==
    PanelSpec /\ WF_vars(zoomPositionObserver) /\ WF_vars(panelOpeningTimeoutFires)


(***************************************************************************)
(*              Specifications of the graph and of its scope               *)
(***************************************************************************)
\* The ids a host hands to the calls.
NodeIds == {getDefaultNodes[k] : k \in 1..Len(getDefaultNodes)}

\* The anchors a host hands to addNode: those of the graph, and one off each end.
AnchorIndexes == (-2)..Len(nodes)

GraphInit ==
    /\ innerWidth = 1200
    /\ PanelVarsInit
    /\ ZoomInit
    /\ wrapperRect = [width |-> 1200, height |-> 800]
    /\ contentSize = [width |-> 400, height |-> 600]
    /\ CanvasInit(getDefaultNodes, "build", FALSE)

InGraph(id) == \E k \in 1..Len(nodes) : nodes[k] = id

\* The graph alone: nodes come and go.
GraphNext ==
    \/ \E node \in NodeIds, index \in AnchorIndexes : ~InGraph(node) /\ addNode(node, index)
    \/ \E nodeId \in NodeIds : removeNode(nodeId)

GraphSpec == GraphInit /\ [][GraphNext]_vars

\* The scope of a test over a graph that loses nodes.
ScopeNext ==
    \/ \E nodeId \in NodeIds : removeNode(nodeId)
    \/ \E nodeId \in NodeIds : setTestStartPoint(nodeId)
    \/ \E nodeId \in NodeIds : setTestEndPoint(nodeId)
    \/ removeTestStartPoint
    \/ \E nodeId \in NodeIds : testEndPoint = nodeId /\ removeTestEndPoint(nodeId)

ScopeSpec == GraphInit /\ [][ScopeNext]_vars

\* A shorter flow, for the highlights.
ExecNodes == <<"start", "create-task", "update-case", "end">>
ExecNodeIds == {ExecNodes[k] : k \in 1..Len(ExecNodes)}

\* The largest connector index a host reports.
MaxConnectorIndex == 2
ConnectorIndexLists == SUBSET (0..MaxConnectorIndex)

\* The lists a host hands to setPathHighlights: none, or one passed scenario.
ScenarioLists ==
    {<<>>} \cup {<<[scenarioId |-> "s1", status |-> "passed", connectors |-> c]>> :
                    c \in {0..MaxConnectorIndex, {0}, {MaxConnectorIndex}}}

\* The anchors a host hands to addNode after a click on a connector, or -1.
ConnectorAnchors == (-1)..(Len(nodes) - 2)

ExecInit ==
    /\ innerWidth = 1200
    /\ PanelVarsInit
    /\ ZoomInit
    /\ wrapperRect = [width |-> 1200, height |-> 800]
    /\ contentSize = [width |-> 400, height |-> 600]
    /\ CanvasInit(ExecNodes, "test", TRUE)

ExecNext ==
    \/ \E connectorIndices \in ConnectorIndexLists : setExecutionPath(connectorIndices)
    \/ \E scenarioHighlights \in ScenarioLists : setPathHighlights(scenarioHighlights)
    \/ \E nodeId \in ExecNodeIds : setTestEndPoint(nodeId)
    \/ \E node \in ExecNodeIds, index \in ConnectorAnchors : ~InGraph(node) /\ addNode(node, index)
    \/ \E nodeId \in ExecNodeIds : removeNode(nodeId)

ExecSpec == ExecInit /\ [][ExecNext]_vars

\* One entry of a list handed to setPathHighlights.
Scenario(id, status, connectors) ==
    [scenarioId |-> id, status |-> status, connectors |-> connectors]

\* The lists a host hands to setPathHighlights over two scenarios: entries
\* that overlap, one without a status, one without an id, one without
\* connectors, and an id given twice.
HighlightLists ==
    LET all == Scenario("s1", "passed", 0..MaxConnectorIndex)
        last == Scenario("s1", "passed", {MaxConnectorIndex})
        other == Scenario("s2", "failed", 1..MaxConnectorIndex)
        noStatus == Scenario("s2", "", {0})
        noId == Scenario("", "passed", {1})
        noConnectors == Scenario("s1", "failed", {})
    IN  {<<>>, <<all>>, <<last>>, <<other>>, <<noStatus>>, <<noId>>, <<noConnectors>>,
         <<all, other>>, <<other, all>>, <<last, other>>, <<all, last>>, <<noId, all>>,
         <<other, noConnectors>>}

\* Scope, legacy path and scenario highlights over a flow that keeps its nodes.
HighlightNext ==
    \/ \E nodeId \in ExecNodeIds : setTestStartPoint(nodeId)
    \/ \E nodeId \in ExecNodeIds : setTestEndPoint(nodeId)
    \/ removeTestStartPoint
    \/ \E nodeId \in ExecNodeIds : testEndPoint = nodeId /\ removeTestEndPoint(nodeId)
    \/ clearTestStartPoint
    \/ clearTestEndPoint
    \/ clearAllTestEndPoints
    \/ \E connectorIndices \in ConnectorIndexLists : setExecutionPath(connectorIndices)
    \/ \E scenarioHighlights \in HighlightLists : setPathHighlights(scenarioHighlights)

HighlightSpec == ExecInit /\ [][HighlightNext]_vars

\* The mode of the canvas, with a path and highlights to lose.
ModeNext ==
    \/ \E mode \in {"build", "test"} : setBuildMode(mode)
    \/ \E mode \in {"build", "test"} : updateConfigBuildMode(mode)
    \/ modeSwitchFrameFires
    \/ \E connectorIndices \in ConnectorIndexLists : setExecutionPath(connectorIndices)
    \/ \E scenarioHighlights \in ScenarioLists : setPathHighlights(scenarioHighlights)

ModeSpec == ExecInit /\ [][ModeNext]_vars

\* The shortest flow, for the menus.
MenuNodes == <<"start", "end">>
MenuNodeIds == {MenuNodes[k] : k \in 1..Len(MenuNodes)}

\* The actions of a node menu.
MenuActions ==
    BuildMenuItems \cup {"set-start-point", "remove-start-point", "set-end-point",
                         "remove-end-point"}

MenuInit ==
    /\ innerWidth = 1200
    /\ PanelVarsInit
    /\ ZoomInit
    /\ wrapperRect = [width |-> 1200, height |-> 800]
    /\ contentSize = [width |-> 400, height |-> 600]
    /\ CanvasInit(MenuNodes, "build", FALSE)

MenuNext ==
    \/ \E nodeId \in MenuNodeIds : menuTriggerClick(nodeId)
    \/ dropdownToggleTimeoutFires
    \/ \E nodeId \in MenuNodeIds, action \in MenuActions, confirmed \in BOOLEAN :
          menuItemClick(nodeId, action, confirmed)
    \/ outsideClick
    \/ \E mode \in {"build", "test"} : setBuildMode(mode)
    \/ modeSwitchFrameFires
    \/ \E selective \in BOOLEAN : updateConfig(selective)

MenuSpec == MenuInit /\ [][MenuNext]_vars

\* Every kind of click the listener tells apart, on a two-node flow in build
\* mode whose host may have set a test start point.
ClickNext ==
    \/ \E nodeId \in MenuNodeIds : menuTriggerClick(nodeId)
    \/ dropdownToggleTimeoutFires
    \/ \E nodeId \in MenuNodeIds, action \in MenuActions, confirmed \in BOOLEAN :
          menuItemClick(nodeId, action, confirmed)
    \/ \E nodeId \in MenuNodeIds : nodeClick(nodeId)
    \/ \E index \in 0..(Len(MenuNodes) - 2) : connectorButtonClick(index)
    \/ outsideClick
    \/ \E nodeId \in MenuNodeIds : setTestStartPoint(nodeId)

ClickSpec == MenuInit /\ [][ClickNext]_vars

(***************************************************************************)
(*                        Properties of the panels                         *)
(***************************************************************************)
BothOpen == isOpen["left"] /\ isOpen["right"]

\* The inner edges of the two panels are at least the gap apart.
GapRespected ==
    OpenOffsetWidth("left") + gapBetweenPanels + OpenOffsetWidth("right") <= innerWidth

\* C1: while both panels are open, a drag update that starts from a layout
\* respecting the gap leaves leftWidth + 100 + rightWidth <= viewportWidth,
\* for every pointer position.
C1_DragKeepsGap ==
    [][(BothOpen /\ GapRespected /\ \E clientX \in PointerXs : handleMouseMove(clientX))
          => GapRespected']_vars

\* C4: a close of the left panel while position updates are suspended
\* re-enables them: once the observer has nothing left to run for a closed
\* panel, _legendUpdateDisabled is false.
C4_CloseReenablesUpdates ==
    (~isOpen["left"] /\ ~observerCallbackPending) => ~legendUpdateDisabled

\* C5: suspension is bounded: whenever _legendUpdateDisabled is true it
\* eventually becomes false again.
C5_SuspensionIsBounded == legendUpdateDisabled ~> ~legendUpdateDisabled

(***************************************************************************)
(*                  Properties of the graph and its scope                  *)
(***************************************************************************)
\* The lines of a rendered connector carry the legacy 'executed' class.
RenderedExecuted(el) == "executed" \in (el.line \cup el.above \cup el.below)

\* C2: the end-bound connector, the one whose upper node is the current end
\* point, is never rendered with the legacy 'executed' status, in any state
\* reached by setExecutionPath, setPathHighlights, setTestEndPoint, addNode
\* and removeNode.
C2_EndConnectorNeverExecuted ==
    \A p \in 2..Len(dom) :
        (dom[p].kind = "connector" /\ dom[p - 1].id = testEndPoint) => ~RenderedExecuted(dom[p])

\* A bound of the scope is unset or the id of a node of the graph.
Resolves(bound) == bound = None \/ InGraph(bound)

\* C3: the test start point and the test end point are each either unset or
\* the id of a node currently in the graph.
C3_ScopeBoundsAreNodes == Resolves(testStartPoint) /\ Resolves(testEndPoint)

\* The ids at the zero-based places from..to of a list, both included.
InclusiveSlice(ns, from, to) == [k \in 1..Max(to - from + 1, 0) |-> ns[from + k]]

\* The zero-based place of a node of the graph.
IndexOf(id) == (CHOOSE k \in 1..Len(nodes) : nodes[k] = id) - 1

\* C9: getTestScope returns the node ids from index(start), 0 when the start
\* is unset, to index(end), the last index when the end is unset, both
\* included; the bounds being nodes of the graph.
C9_ScopeIsInclusiveSlice ==
    (Resolves(testStartPoint) /\ Resolves(testEndPoint))
        => getTestScope =
              InclusiveSlice(nodes,
                             IF testStartPoint = None THEN 0 ELSE IndexOf(testStartPoint),
                             IF testEndPoint = None THEN Len(nodes) - 1
                                                    ELSE IndexOf(testEndPoint))

\* The sample flow with start = create-task and no end: the last four nodes.
C9_Witness ==
    /\ nodes = getDefaultNodes
    /\ lastOp.op = "setTestStartPoint"
    /\ testStartPoint = "create-task"
    /\ testEndPoint = None
    /\ getTestScope = <<"create-task", "update-case", "send-email", "end">>

\* The rendered diagram has max(N - 1, 0) connectors, and connector i lies
\* between node i and node i + 1.
ConnectorsBetweenNodes(d, ns) ==
    /\ Len(Connectors(d)) = Max(Len(ns) - 1, 0)
    /\ \A i \in 0..(Len(ns) - 2) :
          \E p \in 2..(Len(d) - 1) :
              /\ d[p].kind = "connector" /\ d[p].index = i /\ ConnectorPosition(d, p) = i
              /\ d[p - 1].kind = "node" /\ d[p - 1].id = At(ns, i)
              /\ d[p + 1].kind = "node" /\ d[p + 1].id = At(ns, i + 1)

\* b is a without the node id: the same nodes in the same relative order.
SameOrderWithout(a, b, id) ==
    /\ {a[k] : k \in 1..Len(a)} \ {id} = {b[k] : k \in 1..Len(b)}
    /\ Len(b) = Cardinality({b[k] : k \in 1..Len(b)})
    /\ \A j, k \in 1..Len(b) :
          j < k => \E m, n \in 1..Len(a) : m < n /\ a[m] = b[j] /\ a[n] = b[k]

\* C10: after addNode(node, i) or removeNode(id) on a graph of N nodes the
\* rendered diagram has max(N - 1, 0) connectors, connector i lies between
\* node i and node i + 1, the other nodes keep their relative order, and
\* addNode places the new node at position i + 1 (i an index of the graph, or
\* -1 for the front).
C10_ConnectorsFollowNodes ==
    [][/\ \A node \in NodeIds, index \in AnchorIndexes :
             (~InGraph(node) /\ addNode(node, index))
                => /\ ConnectorsBetweenNodes(dom', nodes')
                   /\ SameOrderWithout(nodes', nodes, node)
                   /\ (index \in (-1)..(Len(nodes) - 1) => At(nodes', index + 1) = node)
       /\ \A nodeId \in NodeIds :
             removeNode(nodeId)
                => /\ ConnectorsBetweenNodes(dom', nodes')
                   /\ SameOrderWithout(nodes, nodes', nodeId)]_vars

\* A node put back in the middle of the flow.
C10_Witness ==
    /\ lastOp.op = "addNode"
    /\ lastOp.index = 1
    /\ Len(nodes) = Len(getDefaultNodes)
    /\ At(nodes, 2) = lastOp.id
    /\ ConnectorsBetweenNodes(dom, nodes)

(***************************************************************************)
(*                 Properties of the path and the highlights               *)
(***************************************************************************)
\* The status classes on the lines of a rendered connector.
RenderedStatuses(el) == el.line \cup el.above \cup el.below

\* No connector of the document carries a status class.
NothingHighlighted(d) ==
    \A p \in 1..Len(d) : d[p].kind = "connector" => RenderedStatuses(d[p]) = {}

\* C11: right after setTestStartPoint(n) or setTestEndPoint(n), from any
\* state, the legacy execution path and the scenario highlight mapping are
\* empty, and the content re-rendered by the call was rendered from the
\* cleared state: no connector carries a status.
C11_SettingBoundClearsHighlights ==
    [][\A nodeId \in ExecNodeIds :
          (setTestStartPoint(nodeId) \/ setTestEndPoint(nodeId))
             => /\ executionPath' = {}
                /\ pathHighlights' = <<>>
                /\ NothingHighlighted(dom')]_vars

\* A bound was set and nothing is left of the path or of the highlights.
C11_Witness ==
    /\ lastOp.op \in {"setTestStartPoint", "setTestEndPoint"}
    /\ testStartPoint # None
    /\ testEndPoint # None
    /\ executionPath = {}
    /\ pathHighlights = <<>>
    /\ NothingHighlighted(dom)

\* C12: every operation that removes a scope bound (removeTestStartPoint,
\* removeTestEndPoint, clearTestStartPoint, clearTestEndPoint,
\* clearAllTestEndPoints) leaves the legacy execution path and the scenario
\* highlight mapping empty for the render that follows.
C12_RemovingBoundClearsHighlights ==
    [][(\/ removeTestStartPoint
        \/ \E nodeId \in ExecNodeIds : removeTestEndPoint(nodeId)
        \/ clearTestStartPoint
        \/ clearTestEndPoint
        \/ clearAllTestEndPoints)
          => /\ executionPath' = {}
             /\ pathHighlights' = <<>>
             /\ NothingHighlighted(dom')]_vars

\* C13: whenever the mode becomes 'build', through setBuildMode('build') or
\* through updateConfig({buildMode: 'build'}), the legacy execution path and
\* the scenario highlight mapping are empty afterwards.
C13_BuildModeClearsHighlights ==
    [][(setBuildMode("build") \/ updateConfigBuildMode("build"))
          => (executionPath' = {} /\ pathHighlights' = <<>>)]_vars

\* The node is immediately followed by a node of type 'end' or by the
\* current end-bound node.
EndPointDisallowed(nodeId) ==
    LET i == findIndex(nodes, nodeId)
    IN  /\ i >= 0 /\ i < Len(nodes) - 1
        /\ (TypeOf(At(nodes, i + 1)) = "end" \/ At(nodes, i + 1) = testEndPoint)

\* C14: setting the end point on a node that is immediately followed by a
\* node of type 'end' or by the current end-bound node is a no-op, also when
\* setTestEndPoint is invoked directly: end bound and highlights unchanged.
C14_DisallowedEndPointIsNoOp ==
    [][\A nodeId \in NodeIds :
          (EndPointDisallowed(nodeId) /\ setTestEndPoint(nodeId))
             => /\ testEndPoint' = testEndPoint
                /\ executionPath' = executionPath
                /\ pathHighlights' = pathHighlights]_vars

\* The start-bound connector, the one whose lower node is the start point,
\* and the end-bound connector, the one whose upper node is the end point.
HasStartBoundConnector == Resolves(testStartPoint) /\ testStartPoint # None
                             /\ IndexOf(testStartPoint) >= 1
StartBoundConnectorIndex == IndexOf(testStartPoint) - 1
HasEndBoundConnector == Resolves(testEndPoint) /\ testEndPoint # None
                           /\ IndexOf(testEndPoint) < Len(nodes) - 1
EndBoundConnectorIndex == IndexOf(testEndPoint)

\* The start point is not after the end point (the scope is not inverted).
ScopeInOrder ==
    /\ Resolves(testStartPoint) /\ Resolves(testEndPoint)
    /\ (testStartPoint # None /\ testEndPoint # None)
          => IndexOf(testStartPoint) <= IndexOf(testEndPoint)

\* An index set without what lies strictly below the start-bound connector
\* or strictly above the end-bound connector.
TrimmedToScope(indices) ==
    {i \in indices : /\ HasStartBoundConnector => i >= StartBoundConnectorIndex
                     /\ HasEndBoundConnector => i <= EndBoundConnectorIndex}

\* The entry has an id and a non-empty connector list.
Storable(entry) == entry.scenarioId # "" /\ entry.connectors # {}

\* The entry of a list that counts for a scenario: its last storable one.
EntryOf(list, id) ==
    list[CHOOSE k \in 1..Len(list) :
            /\ Storable(list[k]) /\ list[k].scenarioId = id
            /\ \A j \in (k + 1)..Len(list) :
                  ~(Storable(list[j]) /\ list[j].scenarioId = id)]

\* The mapping the sentence describes for a list.
TrimmedHighlights(list) ==
    [id \in {list[k].scenarioId : k \in {j \in 1..Len(list) : Storable(list[j])}} |->
        [status |-> IF EntryOf(list, id).status = "" THEN "not-run"
                                                     ELSE EntryOf(list, id).status,
         connectors |-> TrimmedToScope(EntryOf(list, id).connectors)]]

StatusesOn(index) ==
    {pathHighlights[id].status : id \in {x \in DOMAIN pathHighlights :
                                            index \in pathHighlights[x].connectors}}

\* What a line shows for a set of scenario statuses: the status alone, or
\* the multi-status marker with all of them.
LineFor(statuses) == IF Cardinality(statuses) >= 2 THEN statuses \cup {"multi"} ELSE statuses

\* C16: for every connector, the rendered status is the set of distinct
\* statuses of all stored scenarios whose connector set contains it: a single
\* status gives a single-status line, two or more a multi-status line with
\* all of them, whatever the order of the scenarios.
C16_RenderedStatusIsComposite ==
    \A p \in 1..Len(dom) :
        dom[p].kind = "connector"
           => RenderedStatuses(dom[p]) \ {"executed"}
                 = LineFor(StatusesOn(ConnectorPosition(dom, p)))

\* C17: setPathHighlights is idempotent: after a call with a list, a second
\* call with the same list, graph and scope unchanged, stores the same mapping
\* and draws the same statuses on every connector.
C17_SetPathHighlightsIsIdempotent ==
    [][\A scenarioHighlights \in HighlightLists :
          setPathHighlights(scenarioHighlights)
             => /\ PathHighlightsFor(dom', scenarioHighlights) = pathHighlights'
                /\ updateConnectorStyles(dom', executionPath',
                                         PathHighlightsFor(dom', scenarioHighlights)) = dom']_vars

\* Two overlapping scenarios stored and drawn under an end bound.
C17_Witness ==
    /\ lastOp.op = "setPathHighlights"
    /\ testEndPoint = "create-task"
    /\ DOMAIN pathHighlights = {"s1", "s2"}
    /\ \E p \in 1..Len(dom) : dom[p].kind = "connector" /\ "multi" \in RenderedStatuses(dom[p])

\* The connector with this index is drawn with the legacy status.
DrawnExecuted(d, index) ==
    \E p \in 1..Len(d) : /\ d[p].kind = "connector"
                         /\ ConnectorPosition(d, p) = index
                         /\ RenderedExecuted(d[p])

\* C18: right after setExecutionPath(I), the scope in order, no connector index
\* strictly below the start-bound connector, and none strictly above the
\* end-bound connector, is in the execution path or drawn as executed.
C18_ExecutionPathIsTrimmedToScope ==
    [][\A connectorIndices \in ConnectorIndexLists :
          (ScopeInOrder /\ setExecutionPath(connectorIndices))
             => \A i \in 0..MaxConnectorIndex :
                   (\/ HasStartBoundConnector /\ i < StartBoundConnectorIndex
                    \/ HasEndBoundConnector /\ i > EndBoundConnectorIndex)
                      => i \notin executionPath' /\ ~DrawnExecuted(dom', i)]_vars

\* The connector lies inside the scope, is in the legacy execution path and is
\* in the connector set of at least one stored scenario.
InPathAndHighlighted(index) ==
    /\ Has(Connectors(dom), index)
    /\ TrimmedToScope({index}) = {index}
    /\ index \in executionPath
    /\ StatusesOn(index) # {}

\* C19 as stated: a connector inside the scope that is in the legacy path and
\* in a scenario highlight is drawn with 'executed' and with the scenario
\* statuses together.
C19_LegacyAndScenarioAreUnioned ==
    \A index \in 0..MaxConnectorIndex :
       InPathAndHighlighted(index)
          => /\ "executed" \in RenderedStatuses(At(Connectors(dom), index))
             /\ StatusesOn(index) \subseteq RenderedStatuses(At(Connectors(dom), index))

\* C19: a connector inside the scope that is in the legacy path and in a
\* scenario highlight is drawn with the scenario statuses only ('multi' added
\* when they differ); the legacy 'executed' status is not drawn on it.
C19_ScenarioStatusesReplaceLegacy ==
    \A index \in 0..MaxConnectorIndex :
       InPathAndHighlighted(index)
          => RenderedStatuses(At(Connectors(dom), index)) = LineFor(StatusesOn(index))

\* A connector in the path and in a failed scenario, with a start bound set.
C19_Witness ==
    /\ testStartPoint = "create-task"
    /\ \E index \in 0..MaxConnectorIndex :
          /\ InPathAndHighlighted(index)
          /\ "failed" \in RenderedStatuses(At(Connectors(dom), index))

(***************************************************************************)
(*                       Properties of the node menus                      *)
(***************************************************************************)
\* The menu of a node has an item to offer in the current mode.
HasEligibleItems == buildMode = "build" \/ (buildMode = "test" /\ enableSelectiveTesting)

\* C6: a click on the menu trigger of a node whose menu is closed and has at
\* least one eligible item opens that menu and leaves every other menu closed,
\* also after earlier trigger clicks that were suppressed or refused (the click
\* comes once the 100 ms guard of the last toggle has run out).
C6_TriggerOpensClosedMenu ==
    [][\A nodeId \in MenuNodeIds :
          (/\ Rendered(dom, nodeId) /\ ~MenuOpen(dom, nodeId)
           /\ HasEligibleItems
           /\ ~dropdownToggleTimeout
           /\ menuTriggerClick(nodeId))
             => /\ MenuOpen(dom', nodeId)
                /\ \A other \in MenuNodeIds \ {nodeId} : ~MenuOpen(dom', other)]_vars

(***************************************************************************)
(*                          Properties of the zoom                         *)
(***************************************************************************)
\* C7: the zoom level is within [0.25, 3.0] in every state reached by
\* zoomIn, zoomOut, wheel zoom and zoomFit from level 1.
C7_ZoomLevelInRange == minZoom <= zoomLevel /\ zoomLevel <= maxZoom

\* A zoom in that the cap held back.
C7_Witness ==
    zoomLevel = maxZoom /\ isZoomManuallyChanged /\ TimesZoomFactor(zoomLevel) > maxZoom

\* C8 as stated: 20 consecutive zoomIn calls from level 1 leave the level
\* saturated at exactly 3.0.
C8_TwentyZoomInsSaturate == zoomInRun = 20 => zoomLevel = maxZoom

\* C8 as amended: 20 consecutive zoomIn calls from level 1 leave the level at
\* 1.05^20, about 2.65 and below the cap; the level is below 3.0 through the
\* 22nd call and exactly 3.0 from the 23rd consecutive call on.
C8_ZoomInsSaturateAtTwentyThree ==
    /\ zoomInRun = 20 => (265 * ZoomScale < 100 * zoomLevel /\ 100 * zoomLevel < 266 * ZoomScale)
    /\ zoomInRun \in 0..22 => zoomLevel < maxZoom
    /\ zoomInRun >= 23 => zoomLevel = maxZoom

\* Twenty zoomIn calls in a row have been made since construction.
C8_Witness == zoomInRun = 20 /\ isZoomManuallyChanged

\* (available - 96) / (content size as displayed), the content being displayed
\* at its natural size times the current level; in units of 1/ZoomScale.
FitRatio(available, natural) == FitScale(available - fitPadding, natural)

\* C20: zoomFit is a two-mode toggle. With the manual flag true it sets the
\* level to exactly 1.0 and clears the flag; with the flag false it sets the
\* level to max(0.25, min((viewportWidth - 96) / contentWidth,
\* (viewportHeight - 96) / contentHeight, 1.0)) and leaves the flag false.
C20_ZoomFitTogglesResetAndFit ==
    [][zoomFit =>
         /\ isZoomManuallyChanged' = FALSE
         /\ isZoomManuallyChanged => zoomLevel' = ZoomScale
         /\ ~isZoomManuallyChanged =>
               zoomLevel' = Max(minZoom,
                                Min(Min(FitRatio(wrapperRect.width, contentSize.width),
                                        FitRatio(wrapperRect.height, contentSize.height)),
                                    ZoomScale))]_vars

\* The flag is clear and the level is below 100%: only a fit that computed
\* its ratio leaves such a state (a reset leaves exactly 100%).
C20_Witness ==
    /\ ~isZoomManuallyChanged
    /\ zoomInRun = -1
    /\ minZoom < zoomLevel /\ zoomLevel < ZoomScale

\* C21: in fit mode repeated zoomFit calls are idempotent. A state with the
\* flag clear and a level other than 100% was left by a fit that computed its
\* ratio; with the viewport and the diagram unchanged, the next zoomFit keeps
\* that level.
C21_RepeatedFitKeepsLevel ==
    [][(zoomFit /\ ~isZoomManuallyChanged /\ zoomLevel # ZoomScale)
          => zoomLevel' = zoomLevel]_vars

(***************************************************************************)
(*                 Properties of the panel width negotiation               *)
(***************************************************************************)
\* C22: in a drag update whose candidate width reaches into the gap while the
\* other open panel is wider than 400, the other panel is shrunk, to no less
\* than 400, to make room; the dragged panel is held below its candidate
\* width only when the other panel is already at 400.
C22_OtherPanelShrinksFirst ==
    [][\A clientX \in PointerXs :
          (/\ BothOpen /\ GapRespected
           /\ handleMouseMove(clientX)
           /\ Overlap(drag.side, ClampedWidth(clientX)) > 0)
             => /\ OpenOffsetWidth(Other(drag.side)) > otherPanelMinWidth
                     => /\ styleWidth'[Other(drag.side)][1] < OpenOffsetWidth(Other(drag.side))
                        /\ styleWidth'[Other(drag.side)][1] >= otherPanelMinWidth
                /\ styleWidth'[drag.side][1] < ClampedWidth(clientX)
                     => OpenOffsetWidth(Other(drag.side)) = otherPanelMinWidth]_vars

\* The other panel is open at its minimum width while a panel is dragged.
OtherAtMinWidth ==
    /\ drag.side # "none"
    /\ BothOpen
    /\ OpenOffsetWidth(Other(drag.side)) = otherPanelMinWidth

\* C23 as stated: with the other panel open at 400, a drag update never
\* leaves the dragged panel wider than viewportWidth - 400 - 100.
C23_DragCappedByOtherFloor ==
    [][\A clientX \in PointerXs :
          (OtherAtMinWidth /\ handleMouseMove(clientX))
             => styleWidth'[drag.side][1]
                   <= innerWidth - otherPanelMinWidth - gapBetweenPanels]_vars

\* C23: with the other panel open at 400, a drag update never leaves the
\* dragged panel wider than viewportWidth - 400 - 100, or than 400 where the
\* viewport is narrower than 900 and that cap is below the minimum width.
C23_DragCappedByOtherFloorOrMinWidth ==
    [][\A clientX \in PointerXs :
          (OtherAtMinWidth /\ handleMouseMove(clientX))
             => styleWidth'[drag.side][1]
                   <= Max(minWidth,
                          innerWidth - otherPanelMinWidth - gapBetweenPanels)]_vars

\* Viewport 1200, the right panel at 400, the left panel dragged up to the cap.
C23_Witness ==
    /\ innerWidth = 1200
    /\ drag.side = "left"
    /\ BothOpen
    /\ OpenOffsetWidth("right") = 400
    /\ OpenOffsetWidth("left") = 700

\* C24: after any sequence of drags, opens and closes, the width of every
\* panel, as shown while open and as remembered, is at least 400 (so a drag
\* never leaves the other panel below 400), and the width of the panel being
\* dragged is at most 0.8 x viewportWidth.
C24_PanelWidthsInRange ==
    \A side \in Sides :
       /\ isOpen[side] => OpenOffsetWidth(side) >= minWidth
       /\ Len(dataPanelWidth[side]) > 0 => dataPanelWidth[side][1] >= minWidth
       /\ drag.side = side => OpenOffsetWidth(side) <= maxWidth

\* A step of a drag: its begin, one of its updates, or its end.
DragStep ==
    \/ \E side \in Sides : handleMouseDown(side)
    \/ \E clientX \in PointerXs : handleMouseMove(clientX)
    \/ handleMouseUp

\* C25: no step of a drag on one panel changes the open/closed state of the
\* other panel (nor of the dragged one); only widths change.
C25_DragKeepsOpenState == [][DragStep => isOpen' = isOpen]_vars

\* The right panel is being dragged and the open left panel has been shrunk
\* to make room.
C25_Witness ==
    /\ innerWidth = 1200
    /\ drag.side = "right"
    /\ BothOpen
    /\ OpenOffsetWidth("right") = 600
    /\ OpenOffsetWidth("left") = 500

\* C26: panel widths survive close/open cycles.  When a drag ends, the width
\* remembered for each open panel is the width it then has; a close keeps what
\* is remembered and a re-open of the closed panel shows it; and a panel that
\* was never opened, hence never dragged, opens at 400.
C26_WidthsSurviveCloseOpen ==
    [][\A side \in Sides :
          /\ (handleMouseUp /\ isOpen[side]) => dataPanelWidth'[side] = styleWidth'[side]
          /\ close(side) => dataPanelWidth'[side] = dataPanelWidth[side]
          /\ (open(side) /\ ~isOpen[side] /\ Len(dataPanelWidth[side]) > 0
                /\ Len(styleWidth[side]) > 0)
                => styleWidth'[side] = dataPanelWidth[side]
          /\ (open(side) /\ Len(styleWidth[side]) = 0)
                => styleWidth'[side] = <<defaultWidth>>]_vars

(***************************************************************************)
(*                  Properties of the open and closed menus                *)
(***************************************************************************)
\* The nodes whose menu is shown.
OpenMenus == {id \in MenuNodeIds : MenuOpen(dom, id)}

\* C27: at most one node menu is open in any state reached by trigger clicks,
\* item clicks, outside clicks and mode changes: opening a menu closes every
\* other one.
C27_AtMostOneMenuOpen == Cardinality(OpenMenus) <= 1

\* The last click opened the menu of 'end' and no other menu is open.
C27_Witness ==
    /\ lastOp = Op("menuTriggerClick", "end", -1)
    /\ OpenMenus = {"end"}

\* C28: an open node menu becomes closed on each of: a click on one of its
\* items, a click anywhere else on the canvas (the background, another node,
\* a connector button), and a click on its own trigger, also shortly after the
\* click that opened it.
C28_OpenMenuClosesOnClick ==
    [][\A nodeId \in MenuNodeIds :
          MenuOpen(dom, nodeId)
             => /\ \A action \in MenuActions, confirmed \in BOOLEAN :
                      menuItemClick(nodeId, action, confirmed) => ~MenuOpen(dom', nodeId)
                /\ outsideClick => ~MenuOpen(dom', nodeId)
                /\ \A other \in MenuNodeIds \ {nodeId} :
                      nodeClick(other) => ~MenuOpen(dom', nodeId)
                /\ \A index \in 0..(Len(MenuNodes) - 2) :
                      connectorButtonClick(index) => ~MenuOpen(dom', nodeId)
                /\ menuTriggerClick(nodeId) => ~MenuOpen(dom', nodeId)]_vars

\* C29: a menu with no eligible items never opens.  In every state no open
\* menu has an empty item list, and in test mode with selective testing
\* disabled a trigger click leaves the menu closed.
C29_EmptyMenuNeverOpens ==
    [][/\ \A nodeId \in MenuNodeIds :
             MenuOpen(dom', nodeId) => Card(dom', nodeId).items # {}
       /\ \A nodeId \in MenuNodeIds :
             (/\ buildMode = "test" /\ ~enableSelectiveTesting
              /\ ~MenuOpen(dom, nodeId)
              /\ menuTriggerClick(nodeId))
                => ~MenuOpen(dom', nodeId)]_vars

\* C30: a delete request that the user declines to confirm leaves the node
\* list, the selected node id and the test start and end points exactly as
\* they were, and fires no content-changed notification.
C30_DeclinedDeleteChangesNothing ==
    [][\A nodeId \in MenuNodeIds :
          menuItemClick(nodeId, "delete-element", FALSE)
             => /\ nodes' = nodes
                /\ selectedNodeId' = selectedNodeId
                /\ testStartPoint' = testStartPoint
                /\ testEndPoint' = testEndPoint
                /\ ~FiresOnChange(buildMode', lastOp')]_vars

\* The delete of the selected node 'end', which is the test start point, was
\* declined: the node is still there.
C30_Witness ==
    /\ lastOp = Op("deleteDeclined", "end", -1)
    /\ selectedNodeId = "end"
    /\ testStartPoint = "end"
    /\ nodes = MenuNodes


(***************************************************************************)
(*            Specification of calls that name a node by its id            *)
(***************************************************************************)
\* A flow of two nodes, in either mode, whose nodes are removed one by one.
TargetNodes == <<"update-case", "end">>
TargetNodeIds == {TargetNodes[k] : k \in 1..Len(TargetNodes)}

\* The title a host sets, and the outputs it stores.
NewTitle == "Renamed"
SomeOutputs == [fieldName \in {"text"} |-> "mocked"]

TargetInit ==
    /\ innerWidth = 1200
    /\ PanelVarsInit
    /\ ZoomInit
    /\ wrapperRect = [width |-> 1200, height |-> 800]
    /\ contentSize = [width |-> 400, height |-> 600]
    /\ \E mode \in {"build", "test"} : CanvasInit(TargetNodes, mode, TRUE)

TargetNext ==
    \/ \E nodeId \in TargetNodeIds : nodeClick(nodeId)
    \/ \E nodeId \in TargetNodeIds : removeNode(nodeId)
    \/ \E nodeId \in TargetNodeIds : updateNodeProperty(nodeId, NewTitle)
    \/ \E nodeId \in TargetNodeIds : updateNodeOutputs(nodeId, SomeOutputs)
    \/ \E nodeId \in TargetNodeIds : setTestStartPoint(nodeId)
    \/ \E nodeId \in TargetNodeIds : setTestEndPoint(nodeId)
    \/ setExecutionPath({0})

TargetSpec == TargetInit /\ [][TargetNext]_vars

(***************************************************************************)
(*                       Calls on a node that is gone                      *)
(***************************************************************************)
\* C31: removeNode, updateNodeProperty, updateNodeOutputs, setTestStartPoint
\* and setTestEndPoint, called with an id that no node of the graph has,
\* leave the nodes, the selection, the scope, the execution path, the
\* highlights, the titles and the outputs as they were and tell the host
\* nothing.
C31_AbsentTargetIsNoOp ==
    [][\A nodeId \in TargetNodeIds :
          (/\ ~InGraph(nodeId)
           /\ \/ removeNode(nodeId)
              \/ updateNodeProperty(nodeId, NewTitle)
              \/ updateNodeOutputs(nodeId, SomeOutputs)
              \/ setTestStartPoint(nodeId)
              \/ setTestEndPoint(nodeId))
             => /\ UNCHANGED <<nodes, selectedNodeId, testStartPoint, testEndPoint,
                              executionPath, pathHighlights, titles, outputs>>
                /\ fired' = <<>>]_vars


(***************************************************************************)
(*        FlowCanvas and FlowPanel whose mount point was not found         *)
(***************************************************************************)
\* What every call below leaves alone when this.container is null: nothing
\* is rendered, no timer is set and no callback of the host is reached.
WithoutContainer(name, id) ==
    /\ ~container
    /\ lastOp' = Op(name, id, -1)
    /\ fired' = <<>>
    /\ UNCHANGED <<enableSelectiveTesting, dom, menuCache, nodeExistsCache, container>>
    /\ UNCHANGED <<panelVars, observerVars, zoomVars, menuVars, editVars>>

\* FlowCanvas.setExecutionPath: a list with indices reads the connectors of
\* the container first, an empty one is stored before updateConnectorStyles
\* reads them.
setExecutionPathWithoutContainer(connectorIndices) ==
    /\ WithoutContainer("setExecutionPath", None)
    /\ executionPath' = IF connectorIndices = {} THEN {} ELSE executionPath
    /\ thrown' = TRUE
    /\ UNCHANGED <<nodes, selectedNodeId, buildMode, testStartPoint, testEndPoint,
                   pathHighlights>>

\* FlowCanvas.setPathHighlights: the mapping is emptied, then the connectors
\* of the container are read.
setPathHighlightsWithoutContainer(scenarioHighlights) ==
    /\ WithoutContainer("setPathHighlights", None)
    /\ pathHighlights' = <<>>
    /\ thrown' = TRUE
    /\ UNCHANGED <<nodes, selectedNodeId, buildMode, testStartPoint, testEndPoint,
                   executionPath>>

\* FlowCanvas.clearPathHighlights()
clearPathHighlightsWithoutContainer ==
    /\ WithoutContainer("clearPathHighlights", None)
    /\ pathHighlights' = <<>>
    /\ thrown' = TRUE
    /\ UNCHANGED <<nodes, selectedNodeId, buildMode, testStartPoint, testEndPoint,
                   executionPath>>

\* FlowCanvas.setTestStartPoint and setTestEndPoint: clearExecutionPath, the
\* first step of handleStartEndPointChange, empties both and fails in
\* updateConnectorStyles, before the point is stored.
setTestPointWithoutContainer(name, nodeId) ==
    /\ WithoutContainer(name, nodeId)
    /\ executionPath' = {}
    /\ pathHighlights' = <<>>
    /\ thrown' = TRUE
    /\ UNCHANGED <<nodes, selectedNodeId, buildMode, testStartPoint, testEndPoint>>

\* FlowCanvas.selectNode: the id is stored, updateSelection fails, the host
\* is not told.
selectNodeWithoutContainer(nodeId) ==
    /\ WithoutContainer("selectNode", nodeId)
    /\ selectedNodeId' = nodeId
    /\ thrown' = TRUE
    /\ UNCHANGED <<nodes, buildMode, testStartPoint, testEndPoint, executionPath,
                   pathHighlights>>

\* FlowCanvas.addNode: the node is spliced in, renderNodesOnly fails.
addNodeWithoutContainer(node, index) ==
    /\ WithoutContainer("addNode", node)
    /\ nodes' = splice(nodes, spliceStart(index), node)
    /\ thrown' = TRUE
    /\ UNCHANGED <<selectedNodeId, buildMode, testStartPoint, testEndPoint, executionPath,
                   pathHighlights>>

\* FlowCanvas.removeNode: the node is filtered out, renderNodesOnly fails.
removeNodeWithoutContainer(nodeId) ==
    /\ WithoutContainer("removeNode", nodeId)
    /\ nodes' = SelectSeq(nodes, LAMBDA n : n # nodeId)
    /\ selectedNodeId' = IF selectedNodeId = nodeId THEN None ELSE selectedNodeId
    /\ thrown' = TRUE
    /\ UNCHANGED <<buildMode, testStartPoint, testEndPoint, executionPath, pathHighlights>>

\* FlowCanvas.setBuildMode: the mode is stored; clearExecutionPath (for
\* 'build') or render fails.
setBuildModeWithoutContainer(mode) ==
    /\ WithoutContainer("setBuildMode", None)
    /\ buildMode' = mode
    /\ executionPath' = IF mode = "build" THEN {} ELSE executionPath
    /\ pathHighlights' = IF mode = "build" THEN <<>> ELSE pathHighlights
    /\ thrown' = TRUE
    /\ UNCHANGED <<nodes, selectedNodeId, testStartPoint, testEndPoint>>

\* new FlowPanel(container) for a container that is not found: render
\* returns, attachEventListeners reads this.container.
FlowPanelWithoutContainer(side) ==
    /\ WithoutContainer("FlowPanel", side)
    /\ thrown' = TRUE
    /\ UNCHANGED <<nodes, selectedNodeId, buildMode, testStartPoint, testEndPoint,
                   executionPath, pathHighlights>>

\* The canvas after a construction that did not find its container: the
\* configuration is stored, nothing is rendered and no listener is attached.
UnmountedInit ==
    /\ innerWidth = 1200
    /\ PanelVarsInit
    /\ ZoomInit
    /\ wrapperRect = [width |-> 1200, height |-> 800]
    /\ contentSize = [width |-> 400, height |-> 600]
    /\ nodes = TargetNodes
    /\ selectedNodeId = None
    /\ buildMode \in {"build", "test"}
    /\ enableSelectiveTesting = TRUE
    /\ testStartPoint = None
    /\ testEndPoint = None
    /\ executionPath = {}
    /\ pathHighlights = <<>>
    /\ dom = <<>>
    /\ menuCache = {}
    /\ nodeExistsCache = <<>>
    /\ dropdownToggleInProgress = FALSE
    /\ dropdownToggleTimeout = FALSE
    /\ modeSwitchFrame = FALSE
    /\ lastOp = Op("constructor", None, -1)
    /\ fired = <<>>
    /\ titles = <<>>
    /\ outputs = <<>>
    /\ outputsInputDebounce = <<>>
    /\ timers = {}
    /\ nextTimerId = 1
    /\ panel = NoPanel
    /\ lastInput = <<>>
    /\ container = FALSE
    /\ thrown = FALSE

\* Every public call on the canvas without a container; the ids handed over
\* are those of the flow and one more.
UnmountedNext ==
    LET ids == TargetNodeIds \cup {"send-email"}
    IN  \/ \E connectorIndices \in SUBSET {0} :
              setExecutionPathWithoutContainer(connectorIndices)
        \/ \E scenarioHighlights \in ScenarioLists :
              setPathHighlightsWithoutContainer(scenarioHighlights)
        \/ clearPathHighlightsWithoutContainer
        \/ \E nodeId \in ids : setTestPointWithoutContainer("setTestStartPoint", nodeId)
        \/ \E nodeId \in ids : setTestPointWithoutContainer("setTestEndPoint", nodeId)
        \/ \E nodeId \in ids : selectNodeWithoutContainer(nodeId)
        \/ \E node \in ids, index \in (-1)..(Len(nodes) - 1) :
              ~InGraph(node) /\ addNodeWithoutContainer(node, index)
        \/ \E nodeId \in ids : removeNodeWithoutContainer(nodeId)
        \/ \E mode \in {"build", "test"} : setBuildModeWithoutContainer(mode)
        \/ \E side \in Sides : FlowPanelWithoutContainer(side)

UnmountedSpec == UnmountedInit /\ [][UnmountedNext]_vars

\* C32: a component constructed without its mount point is inert: every
\* later public operation of the canvas, and the construction of a panel,
\* completes without raising an error and changes nothing.
C32_UnmountedIsInert ==
    [][~container
          => /\ ~thrown'
             /\ UNCHANGED <<nodes, selectedNodeId, buildMode, testStartPoint, testEndPoint,
                            executionPath, pathHighlights, dom>>]_vars


(***************************************************************************)
(*              Specification of the debounced output edits                *)
(***************************************************************************)
\* The fields of the resource view that the model types into, and the values.
FieldNames == {"text"}
InputValues == {"a", "b"}

\* The targets of the input listener: a field of a node, or its code
\* textarea, which is committed as the field 'value'.
Targets(ids) == ids \X (FieldNames \cup {"value"})

\* The pending timers of a target.
TimersOf(target) == {t \in timers : <<t.nodeId, t.fieldName>> = target}

BurstInit ==
    /\ innerWidth = 1200
    /\ PanelVarsInit
    /\ ZoomInit
    /\ wrapperRect = [width |-> 1200, height |-> 800]
    /\ contentSize = [width |-> 400, height |-> 600]
    /\ CanvasInit(TargetNodes, "test", TRUE)

\* Typing into the panel of the selected node, while timers fire and nodes
\* are deleted.
BurstNext ==
    \/ \E nodeId \in TargetNodeIds : nodeClick(nodeId)
    \/ refreshPanel
    \/ \E nodeId \in TargetNodeIds, value \in InputValues :
          outputsTextareaInput(nodeId, value)
    \/ \E nodeId \in TargetNodeIds, fieldName \in FieldNames, value \in InputValues :
          outputsFieldInput(nodeId, fieldName, value)
    \/ \E timer \in timers : debounceFires(timer)
    \/ \E nodeId \in TargetNodeIds : removeNode(nodeId)

BurstSpec == BurstInit /\ [][BurstNext]_vars

(***************************************************************************)
(*                       A burst of input events                           *)
(***************************************************************************)
\* C33: input events on one field of one node, each before the timer of the
\* one before fires, are committed once: the target has one pending timer,
\* which holds the value of the last event; when it fires on a node that is
\* in the document, the outputs of the node take that value, the host is
\* told once, with the outputs as committed, and no timer of the target is
\* left.
C33_BurstCommitsLastValueOnce ==
    [][/\ \A target \in Targets(TargetNodeIds) :
             target \in DOMAIN lastInput'
                => \E t \in timers' :
                      /\ TimersOf(target)' = {t}
                      /\ t.value = lastInput'[target].value
       /\ \A timer \in timers :
             (debounceFires(timer) /\ Rendered(dom, timer.nodeId))
                => /\ <<timer.nodeId, timer.fieldName>> \in DOMAIN lastInput
                   /\ outputs'[timer.nodeId][timer.fieldName]
                         = lastInput[<<timer.nodeId, timer.fieldName>>].value
                   /\ fired' = <<Notice("onOutputsChange", timer.nodeId,
                                        <<outputs'[timer.nodeId]>>)>>
                   /\ TimersOf(<<timer.nodeId, timer.fieldName>>)' = {}]_vars

\* Two input events on the field 'text' of update-case, then the one timer
\* fired: the outputs hold the second value and the host was told once.
C33_Witness ==
    /\ lastOp = Op("debounceFires", "update-case", 2)
    /\ nextTimerId = 3
    /\ timers = {}
    /\ DOMAIN outputs = {"update-case"}
    /\ outputs["update-case"] = [fieldName \in {"text"} |-> "b"]
    /\ Len(fired) = 1


(***************************************************************************)
(*                    Specification of the selection                       *)
(***************************************************************************)
\* The node lists a host hands to updateConfig.
NodeLists == {TargetNodes, <<"update-case">>, <<"end">>}

\* Selecting and deselecting, while nodes are removed or the list is replaced.
SelectionNext ==
    \/ \E nodeId \in TargetNodeIds : nodeClick(nodeId)
    \/ \E nodeId \in TargetNodeIds : InGraph(nodeId) /\ selectNode(nodeId)
    \/ deselectNode
    \/ outsideClick
    \/ \E nodeId \in TargetNodeIds : removeNode(nodeId)
    \/ \E ns \in NodeLists : updateConfigNodes(ns)

SelectionSpec == TargetInit /\ [][SelectionNext]_vars

(***************************************************************************)
(*                     The selection and the graph                         *)
(***************************************************************************)
\* C34: in every reachable state the selected node id is null or the id of a
\* node of the graph: neither removeNode of the selected node nor
\* updateConfig with a node list leaves the selection on a missing node.
C34_SelectionIsInGraph == selectedNodeId = None \/ InGraph(selectedNodeId)

\* The host was told of a node selection, with this id (or null).
ToldSelected(id) ==
    \E k \in 1..Len(fired) : fired[k].name = "onNodeSelected" /\ fired[k].id = id

\* C36: every change of the selection tells the host at once, with the new
\* value: the node id on a selection, null when the selection is cleared by
\* deselectNode, by a click outside or by the removal of the selected node.
C36_SelectionChangeIsNotified ==
    [][selectedNodeId' # selectedNodeId => ToldSelected(selectedNodeId)']_vars


(***************************************************************************)
(*                 Specification of the property edits                     *)
(***************************************************************************)
\* Edits of the title, by the host and through the panel, in both modes.
PropertyNext ==
    \/ \E nodeId \in TargetNodeIds : nodeClick(nodeId)
    \/ deselectNode
    \/ refreshPanel
    \/ \E nodeId \in TargetNodeIds : updateNodeProperty(nodeId, NewTitle)
    \/ propertyChange(NewTitle)
    \/ \E mode \in {"build", "test"} : setBuildMode(mode)
    \/ modeSwitchFrameFires
    \/ \E mode \in {"build", "test"} : updateConfigBuildMode(mode)

PropertySpec == TargetInit /\ [][PropertyNext]_vars

(***************************************************************************)
(*                    Property edits and the mode                          *)
(***************************************************************************)
\* C35: in test mode an edit of the title of the selected node, by
\* updateNodeProperty or through the title input of the panel, changes no
\* stored title and tells the host nothing; in build mode updateNodeProperty
\* on a node of the graph stores the title and tells the host of the change
\* exactly once.
C35_PropertyEditFollowsMode ==
    [][\A nodeId \in TargetNodeIds :
          /\ (/\ buildMode = "test"
              /\ selectedNodeId = nodeId
              /\ updateNodeProperty(nodeId, NewTitle) \/ propertyChange(NewTitle))
                => /\ titles' = titles
                   /\ fired' = <<>>
          /\ (/\ buildMode = "build"
              /\ InGraph(nodeId)
              /\ updateNodeProperty(nodeId, NewTitle))
                => /\ Title(nodeId)' = NewTitle
                   /\ fired' = <<Notice("onChange", None, <<>>)>>]_vars


(***************************************************************************)
(*                        The zoom-in button                               *)
(***************************************************************************)
\* C37: after every zoom operation the zoom-in button is disabled exactly
\* when the level is 100% or more, and the disabling is reported only:
\* zoomIn() at a level of 100% or more, below the maximum, still raises the
\* level, to no more than the maximum.
C37_ZoomInButtonReportsOnly ==
    [][/\ zoomInDisabled' = (zoomLevel' >= ZoomScale)
       /\ (zoomIn /\ zoomLevel >= ZoomScale /\ zoomLevel < maxZoom)
             => (zoomInDisabled /\ zoomLevel' > zoomLevel /\ zoomLevel' <= maxZoom)]_vars

\* Two zoomIn calls in a row from 100%: the level is above 100%, the button
\* is disabled.
C37_Witness ==
    /\ zoomInRun = 2
    /\ zoomLevel > ZoomScale
    /\ zoomInDisabled


(***************************************************************************)
(*                     The release of the toggle guard                     *)
(***************************************************************************)
\* C38: the guard against a double toggle is released on every path that
\* sets it: while this._dropdownToggleInProgress is set, the timer that
\* clears it is pending (the branch for a dropdown that is not found clears
\* it before the listener returns), so the flag does not stay set.
C38_ToggleGuardIsReleased == dropdownToggleInProgress => dropdownToggleTimeout


(***************************************************************************)
(*                  Statuses outside the scope of a test                   *)
(***************************************************************************)
\* The connector index lies outside the scope: strictly below the
\* start-bound connector or strictly above the end-bound connector.
OutsideScope(index) ==
    \/ HasStartBoundConnector /\ index < StartBoundConnectorIndex
    \/ HasEndBoundConnector /\ index > EndBoundConnectorIndex

\* C39: in every state reached by setPathHighlights, setExecutionPath and
\* changes of the scope, the scope in order, no connector outside the scope
\* is rendered with a status.
C39_NoStatusOutsideScope ==
    ScopeInOrder
       => \A p \in 1..Len(dom) :
             (dom[p].kind = "connector" /\ OutsideScope(ConnectorPosition(dom, p)))
                => RenderedStatuses(dom[p]) = {}


(***************************************************************************)
(*      Specification of debounced edits on nodes with similar ids         *)
(***************************************************************************)
\* A flow in which the id of one node is the id of another, a hyphen and the
\* name of a field of the resource view.
SimilarNodes == <<"case", "case-text">>
SimilarNodeIds == {SimilarNodes[k] : k \in 1..Len(SimilarNodes)}

SimilarInit ==
    /\ innerWidth = 1200
    /\ PanelVarsInit
    /\ ZoomInit
    /\ wrapperRect = [width |-> 1200, height |-> 800]
    /\ contentSize = [width |-> 400, height |-> 600]
    /\ CanvasInit(SimilarNodes, "test", TRUE)

\* Typing into the panel of one node, then of the other, while timers fire.
SimilarNext ==
    \/ \E nodeId \in SimilarNodeIds : nodeClick(nodeId)
    \/ refreshPanel
    \/ \E nodeId \in SimilarNodeIds, value \in InputValues :
          outputsTextareaInput(nodeId, value)
    \/ \E nodeId \in SimilarNodeIds, fieldName \in FieldNames, value \in InputValues :
          outputsFieldInput(nodeId, fieldName, value)
    \/ \E timer \in timers : debounceFires(timer)

SimilarSpec == SimilarInit /\ [][SimilarNext]_vars

(***************************************************************************)
(*                  Pending edits of distinct targets                      *)
(***************************************************************************)
\* C40: pending debounced edits of distinct targets (a field of a node, or
\* the code textarea of a node) never cancel or overwrite each other: every
\* target with an input event that is not yet committed keeps a pending
\* timer holding the value of its last event, whatever other targets are
\* edited meanwhile.
C40_PendingEditsAreIndependent ==
    \A target \in DOMAIN lastInput :
        \E t \in TimersOf(target) : t.value = lastInput[target].value

=============================================================================
